---- MODULE Spec2Model ----
(***************************************************************************)
(* Connection-state entity cache of qq.py: the shared user pool, the       *)
(* recent-message cache, event dispatch, guild sync, message handlers and  *)
(* the role comparator.                                                    *)
(***************************************************************************)
EXTENDS Integers, Sequences, FiniteSets, TLC

(* ------------------------------ bounds --------------------------------- *)
MaxOid == 3
MaxHolders == 2
MaxUserId == 2
MaxMid == 3
MaxRefs == 4
Capacity == 2
MaxRichMsgs == 1
MaxStoreObjs == 2
MaxStoreId == 1

MaxMsgs == Capacity + 2
UserIds == 1..MaxUserId
Oids == 1..MaxOid
Mids == 1..MaxMid
Holders == 1..MaxHolders
MsgIds == 1..MaxMsgs
ChanIds == {1, 2}
RoleIds == {1, 2}
\* the id of the client's own user (ConnectionState.user.id)
BotId == 1

Absent == "absent"
Usernames == {"a", "b"}
Avatars == {Absent, "av"}
BotFlags == {Absent, "true"}

\* a user payload: 'avatar' and 'bot' may be missing from the mapping
UserPayloads ==
    {p \in [id : UserIds, username : Usernames, avatar : Avatars, bot : BotFlags] :
        /\ (p.avatar = Absent) <=> (p.bot = Absent)
        /\ p.avatar # Absent => p.username = "a"}

\* an optional key of a payload: <<>> when the key is missing, <<v>> when present
Has(p, k) == p[k] # <<>>
Val(p, k) == p[k][1]

NoObj == [id |-> 0, name |-> "", avatar |-> "none", bot |-> FALSE, stored |-> FALSE]
NoMem == [exists |-> FALSE, uid |-> 0, nick |-> "", user |-> 0]
NoEntry == [kind |-> "none", ref |-> 0]
NoLast == [op |-> "init"]

VARIABLES
    store,      \* the global user store: the User objects it holds
    obj,        \* heap of User objects: oid -> fields
    rc,         \* reference count kept by the store for each object
    held,       \* what each Member/Message holder slot references (0: nothing)
    nextOid,    \* next fresh User object identity
    mem,        \* heap of Member objects: mid -> fields
    nextMid,    \* next fresh Member object identity
    gmembers,   \* Guild._members: user id -> the object stored under it
    gchannels,  \* Guild._channels: the channel ids cached, with their names
    groles,     \* Guild._roles: the role ids cached
    msg,        \* heap of Message objects: message id -> fields
    nextMsg,    \* next message id delivered by the platform
    cache,      \* the recent-message cache, oldest first
    hasDict,    \* whether Message instances carry a __dict__ besides their slots
    gphase,     \* how far the construction of the guild object has come
    guilds,     \* the guild ids the guild map of the state holds
    fetched,    \* what sync_guild_channels_roles returned to the running sync
    inbox,      \* events delivered by the transport, not yet dispatched
    nextSeq,    \* the number the next delivered event gets
    inflight,   \* events whose handler has started and not yet returned
    running,    \* the event whose handler holds the interpreter (0: none)
    log,        \* the event number of every cache mutation, in the order applied
    done,       \* the events whose handler has returned
    chan,       \* the position and category_id of each channel of the guild
    server,     \* the position the server holds for each channel
    repos,      \* the repositions under way: their payload and open requests
    last        \* the last operation, its arguments and what it returned

(* --------------------------- the world --------------------------------- *)

\* everything a handler may touch, threaded through the calls it makes
World ==
    [store |-> store, obj |-> obj, rc |-> rc, nextOid |-> nextOid,
     mem |-> mem, nextMid |-> nextMid, gmembers |-> gmembers, msg |-> msg,
     ret |-> 0, val |-> <<>>, raised |-> "none", trace |-> <<>>, ok |-> TRUE]

Commit(w) ==
    /\ w.ok
    /\ store' = w.store
    /\ obj' = w.obj
    /\ rc' = w.rc
    /\ nextOid' = w.nextOid
    /\ mem' = w.mem
    /\ nextMid' = w.nextMid
    /\ gmembers' = w.gmembers
    /\ msg' = w.msg

Raise(w, e) == [w EXCEPT !.raised = e]

(* --------------------------- user store -------------------------------- *)

\* the object the store of world w holds for id u, 0 when there is none
ExistingUserIn(w, u) ==
    IF \E o \in w.store : w.obj[o].id = u
    THEN CHOOSE o \in w.store : w.obj[o].id = u
    ELSE 0

ExistingUser(u) == ExistingUserIn(World, u)

\* BaseUser._update with the 'username' assignment dropped
BaseUser_update_keep_name(o, data) ==
    [o EXCEPT !.id = data.id,
              !.avatar = IF data.avatar # Absent THEN data.avatar ELSE @,
              !.bot = (data.bot = "true")]

\* BaseUser._update: name and id always, avatar only when present, bot defaults to False
BaseUser_update(o, data) ==
    [o EXCEPT !.name = data.username,
              !.id = data.id,
              !.avatar = IF data.avatar # Absent THEN data.avatar ELSE @,
              !.bot = (data.bot = "true")]

\* User.__init__: BaseUser.__init__ (_avatar = None, then _update), _stored = False
User_init(data) ==
    BaseUser_update([NoObj EXCEPT !.avatar = "none", !.stored = FALSE], data)

\* a copy that takes the stored mark of the object it copies
User_copy_marked(o) == o

\* User._copy: a new object with the same fields, never marked stored
User_copy(o) == [o EXCEPT !.stored = FALSE]

\* BaseUser._to_minimal_user_json; an 'avatar' of None writes back the None
\* that is already there, which is what a missing key leaves
to_minimal_user_json(o) ==
    [id |-> o.id, username |-> o.name,
     avatar |-> IF o.avatar = "none" THEN Absent ELSE o.avatar,
     bot |-> IF o.bot THEN "true" ELSE Absent]

\* store_user: the existing object updated in place, or a new stored object;
\* either way one more holder is counted; the object is returned in ret
store_user(w, data) ==
    LET e == ExistingUserIn(w, data.id) IN
    IF e # 0
    THEN [w EXCEPT !.obj[e] = BaseUser_update(@, data),
                   !.rc[e] = @ + 1,
                   !.ret = e,
                   !.ok = @ /\ w.rc[e] < MaxRefs]
    ELSE IF w.nextOid > MaxOid
    THEN [w EXCEPT !.ok = FALSE]
    ELSE [w EXCEPT !.obj[w.nextOid] = [User_init(data) EXCEPT !.stored = TRUE],
                   !.store = @ \cup {w.nextOid},
                   !.rc[w.nextOid] = 1,
                   !.nextOid = @ + 1,
                   !.ret = w.nextOid]

\* create_user: a User that is not entered in the store
create_user(w, data) ==
    IF w.nextOid > MaxOid
    THEN [w EXCEPT !.ok = FALSE]
    ELSE [w EXCEPT !.obj[w.nextOid] = User_init(data),
                   !.nextOid = @ + 1,
                   !.ret = w.nextOid]

\* deref_user: one holder less; the entry goes when nobody is left;
\* an id that is not stored is left alone
deref_user(w, u) ==
    LET e == ExistingUserIn(w, u) IN
    IF e = 0
    THEN w
    ELSE [w EXCEPT !.rc[e] = @ - 1,
                   !.store = IF w.rc[e] = 1 THEN @ \ {e} ELSE @]

\* deref_user raising KeyError for an id that is not stored
deref_user_raises_keyerror(u) == ExistingUser(u) = 0

\* deref_user never raises: an id that is not stored is a no-op
deref_user_raises(u) == FALSE

\* User.__del__ calls deref_user whatever the flag says
User__del__derefs_always(o) == TRUE

\* User.__del__: deref_user is called only for an object marked stored
User__del__derefs(o) == obj[o].stored

(* ------------------------ user store operations ------------------------ *)

\* a Member/Message under construction obtains its user from the store
StoreUser(h, data) ==
    /\ held[h] = 0
    /\ LET w == store_user(World, data) IN
        /\ Commit(w)
        /\ held' = [held EXCEPT ![h] = w.ret]
        /\ last' = [op |-> "store_user", data |-> data, prev |-> ExistingUser(data.id),
                    ret |-> w.ret, h |-> h,
                    changed |-> (ExistingUser(data.id) # 0
                                 /\ obj[ExistingUser(data.id)].name # data.username)]
    /\ UNCHANGED <<gchannels, groles, nextMsg, cache, hasDict, gphase, guilds, fetched,
                   inbox, nextSeq, inflight, running, log, done>>
    /\ UNCHANGED <<chan, server, repos>>

\* a holder copies the user it holds into another holder (User._copy)
UserCopy(h, h2) ==
    /\ held[h] # 0
    /\ held[h2] = 0
    /\ nextOid <= MaxOid
    /\ obj' = [obj EXCEPT ![nextOid] = User_copy(obj[held[h]])]
    /\ held' = [held EXCEPT ![h2] = nextOid]
    /\ nextOid' = nextOid + 1
    /\ last' = [op |-> "_copy", src |-> held[h], ret |-> nextOid, h |-> h2]
    /\ UNCHANGED <<store, rc, mem, nextMid, gmembers, gchannels, groles, msg, nextMsg,
                   cache, hasDict, gphase, guilds, fetched, inbox, nextSeq, inflight,
                   running, log, done>>
    /\ UNCHANGED <<chan, server, repos>>

\* a holder goes away and the reference it held is finalized (User.__del__)
UserDel(h) ==
    /\ held[h] # 0
    /\ LET w == IF User__del__derefs(held[h])
                THEN deref_user(World, obj[held[h]].id)
                ELSE World
       IN Commit(w)
    /\ held' = [held EXCEPT ![h] = 0]
    /\ last' = [op |-> "__del__", o |-> held[h], id |-> obj[held[h]].id,
                deref |-> User__del__derefs(held[h]), h |-> h]
    /\ UNCHANGED <<gchannels, groles, nextMsg, cache, hasDict, gphase, guilds, fetched,
                   inbox, nextSeq, inflight, running, log, done>>
    /\ UNCHANGED <<chan, server, repos>>

\* deref_user called for an id the store does not hold (a repeated deref)
DerefAbsent(u) ==
    /\ ExistingUser(u) = 0
    /\ Commit(deref_user(World, u))
    /\ last' = [op |-> "deref_user", id |-> u, raised |-> deref_user_raises(u)]
    /\ UNCHANGED <<held, gchannels, groles, nextMsg, cache, hasDict, gphase, guilds,
                   fetched, inbox, nextSeq, inflight, running, log, done>>
    /\ UNCHANGED <<chan, server, repos>>

(* ------------------------------ members -------------------------------- *)

Nicks == {"", "n1"}
MemberPayloads == [nick : Nicks]

\* Member(data, guild, state): the user comes from store_user(data['user'])
Member_init(w, user, member) ==
    LET w1 == store_user(w, user) IN
    IF ~w1.ok \/ w1.nextMid > MaxMid
    THEN [w1 EXCEPT !.ok = FALSE]
    ELSE [w1 EXCEPT !.mem[w1.nextMid] = [exists |-> TRUE, uid |-> user.id,
                                         nick |-> member.nick, user |-> w1.ret],
                    !.nextMid = @ + 1,
                    !.ret = w1.nextMid]

\* Member._update_from_message: the guild-scoped fields are set in place
Member_update_from_message(w, mid, member) ==
    [w EXCEPT !.mem[mid].nick = member.nick]

\* Guild._add_member: self._members[member.id] = member
_add_member(w, id, entry) == [w EXCEPT !.gmembers[id] = entry]

\* Guild.get_member: self._members.get(user_id)
get_member(w, id) == IF id \in DOMAIN w.gmembers THEN w.gmembers[id] ELSE NoEntry

\* the id and the displayed name of a User or Member referenced by an entry
EntryId(w, e) == IF e.kind = "member" THEN w.mem[e.ref].uid ELSE w.obj[e.ref].id
display_name(w, e) ==
    IF e.kind = "member" /\ w.mem[e.ref].nick # ""
    THEN w.mem[e.ref].nick
    ELSE IF e.kind = "member" THEN w.obj[w.mem[e.ref].user].name
    ELSE w.obj[e.ref].name

(* ------------------------------ messages ------------------------------- *)

Tok(k, id, digits) == [k |-> k, id |-> id, digits |-> digits]

\* message contents, as the mention tokens and text they are made of
Contents ==
    { <<>>,
      <<Tok("user", 1, 18), Tok("chan", 1, 18)>>,
      <<Tok("role", 1, 18), Tok("chan", 2, 3), Tok("everyone", 0, 0)>> }

\* the _cs_ names among Message.__slots__
MessageCsSlots ==
    {"_cs_channel_mentions", "_cs_raw_mentions", "_cs_clean_content",
     "_cs_raw_channel_mentions", "_cs_system_content"}

\* flatten_handlers: every attribute of __slots__ that starts with _cs_
_CACHED_SLOTS == MessageCsSlots

\* the attribute each cached property stores its value in
CacheNames == MessageCsSlots \cup {"_cs_raw_role_mentions"}

Unset == [set |-> FALSE, v |-> <<>>]

NoMsg ==
    [exists |-> FALSE, channel |-> 0, content |-> <<>>, akind |-> "unset", aref |-> 0,
     mentions_set |-> FALSE, mentions |-> <<>>, roles_set |-> FALSE, role_mentions |-> <<>>,
     mention_everyone |-> "none", edited |-> <<>>, attachments |-> "none",
     embeds |-> "none", cs |-> [n \in CacheNames |-> Unset]]

\* flatten_handlers: the handlers in class order, _handle_member last
_HANDLERS_member_first ==
    <<"member", "edited_timestamp", "mention_roles", "mention_everyone", "content",
      "attachments", "embeds", "author", "mentions">>

\* flatten_handlers: the handlers in class order, _handle_member moved to the end
_HANDLERS ==
    <<"edited_timestamp", "mention_roles", "mention_everyone", "content",
      "attachments", "embeds", "author", "mentions", "member">>

\* Message.__init__: the handlers run at construction, in this order
InitHandlers == <<"author", "member", "mentions">>

\* utils.parse_time: the timestamp text becomes a datetime
parse_time(v) == <<"datetime", v>>

_handle_edited_timestamp(w, m, v) == [w EXCEPT !.msg[m].edited = parse_time(v)]

_handle_mention_roles(w, m, v) ==
    [w EXCEPT !.msg[m].roles_set = TRUE,
              !.msg[m].role_mentions = SelectSeq(v, LAMBDA r : r \in RoleIds /\ groles[r].exists)]

_handle_mention_everyone(w, m, v) == [w EXCEPT !.msg[m].mention_everyone = v]

_handle_content(w, m, v) == [w EXCEPT !.msg[m].content = v]

_handle_attachments(w, m, v) == [w EXCEPT !.msg[m].attachments = v]

_handle_embeds(w, m, v) == [w EXCEPT !.msg[m].embeds = v]

\* author = store_user(author); guild._add_member(author)
_handle_author(w, m, author) ==
    LET w1 == store_user(w, author)
        w2 == [w1 EXCEPT !.msg[m].akind = "user", !.msg[m].aref = w1.ret]
    IN IF ~w1.ok THEN w1
       ELSE _add_member(w2, w1.obj[w1.ret].id, [kind |-> "user", ref |-> w1.ret])

\* Member._from_message: a Member built from the author's minimal json
Member_from_message(w, m, member) ==
    Member_init(w, to_minimal_user_json(w.obj[w.msg[m].aref]), member)

\* the author is read first; a Member is updated in place, a User is replaced
_handle_member(w, m, member) ==
    IF w.msg[m].akind = "unset"
    THEN Raise(w, "AttributeError")
    ELSE IF w.msg[m].akind = "member"
    THEN Member_update_from_message(w, w.msg[m].aref, member)
    ELSE LET w1 == Member_from_message(w, m, member)
         IN IF ~w1.ok THEN w1
            ELSE [w1 EXCEPT !.msg[m].akind = "member", !.msg[m].aref = w1.ret]

\* Member._try_upgrade for a mention without member data: a plain User
Member_try_upgrade(w, mention) == create_user(w, mention)

RECURSIVE mentions_loop(_, _, _, _)
mentions_loop(w, m, mentions, i) ==
    IF i > Len(mentions) \/ ~w.ok
    THEN w
    ELSE LET e == get_member(w, mentions[i].id)
             w1 == IF e.kind # "none"
                   THEN [w EXCEPT !.msg[m].mentions = Append(@, e)]
                   ELSE LET wu == Member_try_upgrade(w, mentions[i])
                        IN [wu EXCEPT !.msg[m].mentions =
                                          Append(@, [kind |-> "user", ref |-> wu.ret])]
         IN mentions_loop(w1, m, mentions, i + 1)

\* the message has a guild: members of the guild, else upgraded mention data
_handle_mentions(w, m, mentions) ==
    mentions_loop([w EXCEPT !.msg[m].mentions_set = TRUE, !.msg[m].mentions = <<>>],
                  m, mentions, 1)

ApplyHandler(w, m, key, v) ==
    CASE key = "edited_timestamp" -> _handle_edited_timestamp(w, m, v)
      [] key = "mention_roles" -> _handle_mention_roles(w, m, v)
      [] key = "mention_everyone" -> _handle_mention_everyone(w, m, v)
      [] key = "content" -> _handle_content(w, m, v)
      [] key = "attachments" -> _handle_attachments(w, m, v)
      [] key = "embeds" -> _handle_embeds(w, m, v)
      [] key = "author" -> _handle_author(w, m, v)
      [] key = "member" -> _handle_member(w, m, v)
      [] key = "mentions" -> _handle_mentions(w, m, v)

\* for key in order: a key missing from the payload is skipped; a handler
\* that raises ends the loop
RECURSIVE RunHandlers(_, _, _, _, _)
RunHandlers(w, m, data, order, i) ==
    IF i > Len(order) \/ w.raised # "none" \/ ~w.ok
    THEN w
    ELSE IF ~Has(data, order[i])
    THEN RunHandlers(w, m, data, order, i + 1)
    ELSE RunHandlers(ApplyHandler([w EXCEPT !.trace = Append(@, order[i])],
                                  m, order[i], Val(data, order[i])),
                     m, data, order, i + 1)

\* Message.__init__
Message_init(w, m, channel, data) ==
    IF ~Has(data, "content")
    THEN Raise(w, "KeyError")
    ELSE LET w1 == [w EXCEPT !.msg[m] =
                        [NoMsg EXCEPT
                            !.exists = TRUE,
                            !.channel = channel,
                            !.attachments = IF Has(data, "attachments")
                                            THEN Val(data, "attachments") ELSE "none",
                            !.embeds = IF Has(data, "embeds")
                                       THEN Val(data, "embeds") ELSE "none",
                            !.edited = IF Has(data, "edited_timestamp")
                                       THEN parse_time(Val(data, "edited_timestamp"))
                                       ELSE <<>>,
                            !.mention_everyone = IF Has(data, "mention_everyone")
                                                 THEN Val(data, "mention_everyone")
                                                 ELSE "none",
                            !.content = Val(data, "content")]]
         IN RunHandlers(w1, m, data, InitHandlers, 1)

\* Message._update: the handlers, then every cached slot is deleted
Message_update(w, m, data) ==
    LET w1 == RunHandlers(w, m, data, _HANDLERS, 1) IN
    IF w1.raised # "none"
    THEN w1
    ELSE [w1 EXCEPT !.msg[m].cs =
              [n \in CacheNames |-> IF n \in _CACHED_SLOTS THEN Unset ELSE @[n]]]

(* ------------------------- cached properties --------------------------- *)

\* [0-9]{15,20}: the id text of a mention token has 15 to 20 digits
LongId(t) == t.digits >= 15 /\ t.digits <= 20

Ids(ts) == [i \in 1..Len(ts) |-> ts[i].id]

\* re.findall(r'<@!?([0-9]{15,20})>', content)
raw_mentions(c) == Ids(SelectSeq(c, LAMBDA t : t.k \in {"user", "userbang"} /\ LongId(t)))

\* re.findall(r'<#([0-9]{15,20})>', content)
raw_channel_mentions(c) == Ids(SelectSeq(c, LAMBDA t : t.k = "chan" /\ LongId(t)))

\* re.findall(r'<@&([0-9]{15,20})>', content)
raw_role_mentions(c) == Ids(SelectSeq(c, LAMBDA t : t.k = "role" /\ LongId(t)))

\* utils._unique: the first occurrence of each element, in order
RECURSIVE _unique(_)
_unique(s) ==
    IF s = <<>> THEN <<>>
    ELSE LET r == _unique(SubSeq(s, 1, Len(s) - 1))
         IN IF \E i \in 1..Len(r) : r[i] = s[Len(s)] THEN r ELSE Append(r, s[Len(s)])

\* utils.cached_slot_property.__get__: the stored attribute if there is one,
\* else the computed value (world wc), stored with setattr and returned
cached_get(w, m, name, wc) ==
    IF w.msg[m].cs[name].set
    THEN [w EXCEPT !.val = w.msg[m].cs[name].v]
    ELSE IF wc.raised # "none"
    THEN wc
    ELSE IF name \in MessageCsSlots \/ hasDict
    THEN [wc EXCEPT !.msg[m].cs[name] = [set |-> TRUE, v |-> wc.val]]
    ELSE Raise(wc, "AttributeError")

read_raw_mentions(w, m) ==
    cached_get(w, m, "_cs_raw_mentions", [w EXCEPT !.val = raw_mentions(w.msg[m].content)])

read_raw_channel_mentions(w, m) ==
    cached_get(w, m, "_cs_raw_channel_mentions",
               [w EXCEPT !.val = raw_channel_mentions(w.msg[m].content)])

read_raw_role_mentions(w, m) ==
    cached_get(w, m, "_cs_raw_role_mentions",
               [w EXCEPT !.val = raw_role_mentions(w.msg[m].content)])

\* filter(None, map(guild.get_channel, raw_channel_mentions)), made unique
channel_mentions(w, m) ==
    LET w1 == read_raw_channel_mentions(w, m) IN
    IF w1.raised # "none" THEN w1
    ELSE [w1 EXCEPT !.val = _unique(SelectSeq(w1.val,
                                LAMBDA c : c \in ChanIds /\ gchannels[c].exists))]

read_channel_mentions(w, m) ==
    cached_get(w, m, "_cs_channel_mentions", channel_mentions(w, m))

\* the replacement the transformations hold for a token, <<>> when none
Transformation(w, m, chans, t) ==
    LET ms == w.msg[m].mentions
        hits == {i \in 1..Len(ms) : EntryId(w, ms[i]) = t.id}
    IN CASE t.k = "chan" /\ (\E i \in 1..Len(chans) : chans[i] = t.id) ->
                <<"#", gchannels[t.id].name>>
         [] t.k \in {"user", "userbang"} /\ hits # {} ->
                <<"@", display_name(w, ms[CHOOSE i \in hits : \A j \in hits : j <= i])>>
         [] t.k = "role" /\ (\E i \in 1..Len(w.msg[m].role_mentions) :
                                w.msg[m].role_mentions[i] = t.id) ->
                <<"@", groles[t.id].name>>
         [] OTHER -> <<>>

\* utils.escape_mentions: @everyone, @here and the @ of a raw 17 to 20 digit
\* mention get a zero-width space after the @
escape_mentions(t) ==
    t.k \in {"everyone", "here"}
    \/ (t.k \in {"user", "userbang", "role"} /\ t.digits >= 17 /\ t.digits <= 20)

\* Message.clean_content: the transformations of channel_mentions, mentions and
\* role_mentions substituted in one pass, then escape_mentions
clean_content(w, m) ==
    LET w1 == read_channel_mentions(w, m) IN
    IF w1.raised # "none" THEN w1
    ELSE IF ~w1.msg[m].mentions_set \/ ~w1.msg[m].roles_set
    THEN Raise(w1, "AttributeError")
    ELSE [w1 EXCEPT !.val =
              [i \in 1..Len(w1.msg[m].content) |->
                  LET t == w1.msg[m].content[i]
                      r == Transformation(w1, m, w1.val, t)
                  IN [k |-> t.k, id |-> t.id, digits |-> t.digits, sub |-> r,
                      esc |-> (r = <<>> /\ escape_mentions(t))]]]

read_clean_content(w, m) ==
    cached_get(w, m, "_cs_clean_content", clean_content(w, m))

Props ==
    {"raw_mentions", "raw_channel_mentions", "raw_role_mentions",
     "channel_mentions", "clean_content"}

ReadProperty(w, m, prop) ==
    CASE prop = "raw_mentions" -> read_raw_mentions(w, m)
      [] prop = "raw_channel_mentions" -> read_raw_channel_mentions(w, m)
      [] prop = "raw_role_mentions" -> read_raw_role_mentions(w, m)
      [] prop = "channel_mentions" -> read_channel_mentions(w, m)
      [] prop = "clean_content" -> read_clean_content(w, m)

\* the value a property computes from the current fields, nothing cached
Fresh(m, prop) ==
    LET w == [World EXCEPT !.msg[m].cs = [n \in CacheNames |-> Unset]]
    IN ReadProperty(w, m, prop).val

SlotOf(prop) ==
    CASE prop = "raw_mentions" -> "_cs_raw_mentions"
      [] prop = "raw_channel_mentions" -> "_cs_raw_channel_mentions"
      [] prop = "raw_role_mentions" -> "_cs_raw_role_mentions"
      [] prop = "channel_mentions" -> "_cs_channel_mentions"
      [] prop = "clean_content" -> "_cs_clean_content"

(* ----------------------- recent-message cache -------------------------- *)

\* an append that never discards
cache_append_unbounded(c, m) == Append(c, m)

\* deque(maxlen=Capacity).append: a full cache drops its oldest entry
cache_append(c, m) ==
    IF Len(c) >= Capacity THEN Append(Tail(c), m) ELSE Append(c, m)

\* _get_message: the cached message with this id, 0 (None) when there is none
_get_message(c, id) == IF \E i \in 1..Len(c) : c[i] = id THEN id ELSE 0

\* the cache after a lookup: a lookup changes nothing
cache_after_lookup(c, id) == c

\* a reference that answers with a message object without asking the cache
cached_message_unchecked(hasState, id) == IF hasState THEN id ELSE 0

\* MessageReference.cached_message: self._state and self._state._get_message(id)
cached_message(hasState, id) == IF hasState THEN _get_message(cache, id) ELSE 0

(* ------------------------------ guild sync ----------------------------- *)

GuildId == 7
ChannelTypes == {"text", "unknown"}
RoleName(r) == <<"role", r>>
ChannelName(c) == <<"channel", c>>

NoChannel == [exists |-> FALSE, name |-> <<>>]
NoRole == [exists |-> FALSE, name |-> <<>>]

\* the member record of the client's own user (sync_get_bot_member)
BotMember ==
    [user |-> [id |-> BotId, username |-> "a", avatar |-> Absent, bot |-> "true"],
     nick |-> ""]
OtherMember ==
    [user |-> [id |-> 2, username |-> "b", avatar |-> Absent, bot |-> Absent],
     nick |-> "n1"]

\* what sync_guild_channels_roles may return: channels, roles, members
SyncResults ==
    [channels : {<<>>, <<[id |-> 1, type |-> "text"], [id |-> 2, type |-> "unknown"]>>},
     roles : {<<>>, << <<1>> >>},
     members : {<<>>, <<BotMember, OtherMember>>}]

NoFetch == [channels |-> <<>>, roles |-> <<>>, members |-> <<>>]

\* _guild_channel_factory: the constructor for a type tag, None for an unknown tag
_guild_channel_factory(type) == IF type = "text" THEN "TextChannel" ELSE "None"

RECURSIVE members_loop(_, _, _)
members_loop(w, members, i) ==
    IF i > Len(members) \/ ~w.ok
    THEN w
    ELSE LET w1 == Member_init(w, members[i].user, [nick |-> members[i].nick])
         IN members_loop(_add_member(w1, members[i].user.id,
                                     [kind |-> "member", ref |-> w1.ret]),
                         members, i + 1)

\* a sync that takes the fetched member list as it is, empty or not
sync_members_listed_only(w, f) == members_loop(w, f.members, 1)

\* _sync, members: every fetched member, or the bot's own member when the list is empty
sync_members(w, f) ==
    IF f.members # <<>>
    THEN members_loop(w, f.members, 1)
    ELSE members_loop(w, <<BotMember>>, 1)

\* _sync, roles: if 'roles' in roles, each one is entered under its id
sync_roles(rs, f) ==
    IF Has(f, "roles")
    THEN [r \in RoleIds |->
            IF \E i \in 1..Len(Val(f, "roles")) : Val(f, "roles")[i] = r
            THEN [exists |-> TRUE, name |-> RoleName(r)]
            ELSE rs[r]]
    ELSE rs

\* a sync that gives up at the first channel whose type tag is unknown
sync_channels_until_unknown(cs, f) ==
    [c \in ChanIds |->
        IF \E i \in 1..Len(f.channels) :
              /\ f.channels[i].id = c
              /\ \A j \in 1..i : _guild_channel_factory(f.channels[j].type) # "None"
        THEN [exists |-> TRUE, name |-> ChannelName(c)]
        ELSE cs[c]]

\* _sync, channels: a channel is added when its type tag has a factory
sync_channels(cs, f) ==
    [c \in ChanIds |->
        IF \E i \in 1..Len(f.channels) :
              f.channels[i].id = c /\ _guild_channel_factory(f.channels[i].type) # "None"
        THEN [exists |-> TRUE, name |-> ChannelName(c)]
        ELSE cs[c]]

\* _sync gives the interpreter to other tasks while it waits for a fetch
sync_suspends_await == TRUE

\* _sync is a plain function that calls the blocking http methods: nothing
\* else runs until it has returned
sync_suspends == FALSE

\* Guild.__init__ returns after _from_data, which ends with _sync
Guild_init_returned(phase) == phase = "built"

(* --------------------------- message operations ------------------------ *)

Range(s) == {s[i] : i \in 1..Len(s)}

\* message objects that left the cache are no longer referenced
Sweep(w, c) == [w EXCEPT !.msg = [i \in MsgIds |-> IF i \in Range(c) THEN @[i] ELSE NoMsg]]

NoPayload ==
    [content |-> <<>>, author |-> <<>>, member |-> <<>>, mentions |-> <<>>,
     mention_roles |-> <<>>, mention_everyone |-> <<>>, edited_timestamp |-> <<>>,
     attachments |-> <<>>, embeds |-> <<>>]

Opt(S) == {<<>>} \cup {<<x>> : x \in S}

\* the user payloads message events carry: a user who is not in the guild's
\* member map, under either name
AuthorPayloads == {OtherMember.user, [OtherMember.user EXCEPT !.username = "a"]}

\* payloads of plain messages: a content and nothing else
PlainPayloads == {[NoPayload EXCEPT !.content = <<c>>] : c \in Contents}

\* payloads of message updates: author and member in every combination
MsgPayloads ==
    {[NoPayload EXCEPT !.author = a, !.member = mb] :
        a \in Opt(AuthorPayloads), mb \in Opt(MemberPayloads)}

\* payloads of new messages: the same with a content, and one without
NewMsgPayloads ==
    {[p EXCEPT !.content = <<<<>>>>] : p \in MsgPayloads}
    \cup {[NoPayload EXCEPT !.author = <<OtherMember.user>>, !.member = <<[nick |-> "n1"]>>]}

MentionPayloads == {<<BotMember.user>>, <<OtherMember.user>>}

\* payloads of message events that change what the cached properties compute:
\* a content, or mentions, or mention_roles, or an edit time
PropPayloads ==
    {[NoPayload EXCEPT !.content = c] : c \in Opt(Contents \ {<<>>})}
    \cup {[NoPayload EXCEPT !.mentions = <<ms>>] : ms \in MentionPayloads}
    \cup {[NoPayload EXCEPT !.mention_roles = <<<<1, 2>>>>],
          [NoPayload EXCEPT !.edited_timestamp = <<"t1">>]}

\* payloads of new messages whose content holds mention tokens: with or
\* without the lists of mentioned users and mentioned roles
CleanPayloads ==
    {[NoPayload EXCEPT !.content = <<c>>, !.mentions = ms, !.mention_roles = rs] :
        c \in Contents \ {<<>>},
        ms \in {<<>>} \cup {<<p>> : p \in MentionPayloads},
        rs \in {<<>>, <<<<1, 2>>>>}}

\* the user payloads of authors the guild may know: the bot, who is a member
\* after the sync, and another user
KnownAuthors == {BotMember.user, OtherMember.user}

\* payloads of message events by such authors: author and member in every
\* combination, and a mention of the bot or none
KnownAuthorPayloads ==
    {[NoPayload EXCEPT !.author = a, !.member = mb, !.mentions = ms] :
        a \in Opt(KnownAuthors), mb \in Opt(MemberPayloads),
        ms \in {<<>>, <<<<BotMember.user>>>>}}

\* MESSAGE_CREATE: the message is constructed and appended to the cache
MessageCreate(ch, data) ==
    /\ guilds # {}
    /\ nextMsg <= MaxMsgs
    /\ LET w == Message_init(World, nextMsg, ch, data)
           c == IF w.raised # "none" THEN cache ELSE cache_append(cache, nextMsg)
       IN /\ Commit(Sweep(w, c))
          /\ cache' = c
          /\ last' = [op |-> "Message.__init__", m |-> nextMsg, data |-> data,
                      raised |-> w.raised, trace |-> w.trace, before |-> "unset"]
    /\ nextMsg' = nextMsg + 1
    /\ UNCHANGED <<held, gchannels, groles, hasDict, gphase, guilds, fetched, inbox,
                   nextSeq, inflight, running, log, done>>
    /\ UNCHANGED <<chan, server, repos>>

\* MESSAGE_UPDATE for a cached message: Message._update
MessageUpdate(m, data) ==
    /\ m \in Range(cache)
    /\ LET w == Message_update(World, m, data)
       IN /\ Commit(w)
          /\ last' = [op |-> "_update", m |-> m, data |-> data, raised |-> w.raised,
                      trace |-> w.trace, before |-> msg[m].akind]
    /\ UNCHANGED <<held, gchannels, groles, nextMsg, cache, hasDict, gphase, guilds,
                   fetched, inbox, nextSeq, inflight, running, log, done>>
    /\ UNCHANGED <<chan, server, repos>>

\* a caller reads one of the cached properties of a cached message
ReadProp(m, prop) ==
    /\ m \in Range(cache)
    /\ LET w == ReadProperty(World, m, prop)
       IN /\ Commit(w)
          /\ last' = [op |-> "read", m |-> m, prop |-> prop, raised |-> w.raised,
                      val |-> w.val, wasSet |-> msg[m].cs[SlotOf(prop)].set]
    /\ UNCHANGED <<held, gchannels, groles, nextMsg, cache, hasDict, gphase, guilds,
                   fetched, inbox, nextSeq, inflight, running, log, done>>
    /\ UNCHANGED <<chan, server, repos>>

\* ConnectionState._get_message
GetMessage(id) ==
    /\ cache' = cache_after_lookup(cache, id)
    /\ last' = [op |-> "_get_message", id |-> id, ret |-> _get_message(cache, id),
                calls |-> <<>>]
    /\ UNCHANGED <<store, obj, rc, held, nextOid, mem, nextMid, gmembers, gchannels,
                   groles, msg, nextMsg, hasDict, gphase, guilds, fetched, inbox,
                   nextSeq, inflight, running, log, done>>
    /\ UNCHANGED <<chan, server, repos>>

\* MessageReference.cached_message, for a reference with or without a state
CachedMessage(hasState, id) ==
    /\ cache' = IF hasState THEN cache_after_lookup(cache, id) ELSE cache
    /\ last' = [op |-> "cached_message", id |-> id, hasState |-> hasState,
                ret |-> cached_message(hasState, id), calls |-> <<>>]
    /\ UNCHANGED <<store, obj, rc, held, nextOid, mem, nextMid, gmembers, gchannels,
                   groles, msg, nextMsg, hasDict, gphase, guilds, fetched, inbox,
                   nextSeq, inflight, running, log, done>>
    /\ UNCHANGED <<chan, server, repos>>

(* --------------------------- event dispatch ---------------------------- *)

MaxEvents == 3

\* the dispatcher takes the newest event of the inbox
next_event_newest(q) == Len(q)

\* the dispatcher takes events in the order the transport delivered them
next_event(q) == 1

\* the dispatcher starts a received event only when none is being applied
dispatcher_idle(fl) == fl = {}

CanRun(ev) == running \in {0, ev.seq}

RemoveAt(q, i) == SubSeq(q, 1, i - 1) \o SubSeq(q, i + 1, Len(q))

\* the transport delivers a decoded event
Receive(kind, ch, data) ==
    /\ nextSeq <= MaxEvents
    /\ kind = "GUILD_CREATE" =>
          /\ gphase \in {"none", "failed"}
          /\ \A i \in 1..Len(inbox) : inbox[i].kind # "GUILD_CREATE"
          /\ \A e \in inflight : e.kind # "GUILD_CREATE"
    /\ inbox' = Append(inbox, [seq |-> nextSeq, kind |-> kind, ch |-> ch, data |-> data,
                               pc |-> "start", m |-> 0])
    /\ nextSeq' = nextSeq + 1
    /\ last' = [op |-> "receive", seq |-> nextSeq]
    /\ UNCHANGED <<store, obj, rc, held, nextOid, mem, nextMid, gmembers, gchannels,
                   groles, msg, nextMsg, cache, hasDict, gphase, guilds, fetched,
                   inflight, running, log, done>>
    /\ UNCHANGED <<chan, server, repos>>

\* dispatch(event_type, payload) is entered for the next event
Dispatch ==
    /\ inbox # <<>>
    /\ dispatcher_idle(inflight)
    /\ running = 0
    /\ LET i == next_event(inbox) IN
        /\ inflight' = inflight \cup {inbox[i]}
        /\ inbox' = RemoveAt(inbox, i)
        /\ running' = inbox[i].seq
        /\ last' = [op |-> "dispatch", seq |-> inbox[i].seq]
    /\ UNCHANGED <<store, obj, rc, held, nextOid, mem, nextMid, gmembers, gchannels,
                   groles, msg, nextMsg, cache, hasDict, gphase, guilds, fetched,
                   nextSeq, log, done>>
    /\ UNCHANGED <<chan, server, repos>>

Step(ev, pc) == (inflight \ {ev}) \cup {[ev EXCEPT !.pc = pc]}

\* Guild.__init__ and the assignments of _from_data, up to the call of _sync
GuildBegin(ev) ==
    /\ ev \in inflight /\ ev.kind = "GUILD_CREATE" /\ ev.pc = "start" /\ CanRun(ev)
    /\ gphase' = "from_data"
    /\ gmembers' = [u \in UserIds |-> NoEntry]
    /\ gchannels' = [c \in ChanIds |-> NoChannel]
    /\ groles' = [r \in RoleIds |-> NoRole]
    /\ inflight' = Step(ev, "sync")
    /\ running' = ev.seq
    /\ log' = Append(log, ev.seq)
    /\ last' = [op |-> "_from_data", seq |-> ev.seq]
    /\ UNCHANGED <<store, obj, rc, held, nextOid, mem, nextMid, msg, nextMsg, cache,
                   hasDict, guilds, fetched, inbox, nextSeq, done>>
    /\ UNCHANGED <<chan, server, repos>>

\* _sync: sync_guild_channels_roles returns the three lists, or raises
SyncFetch(ev, f, fails) ==
    /\ ev \in inflight /\ ev.kind = "GUILD_CREATE" /\ gphase = "from_data" /\ CanRun(ev)
    /\ IF fails
       THEN /\ gphase' = "failed"
            /\ inflight' = inflight \ {ev}
            /\ done' = done \cup {ev.seq}
            /\ running' = 0
            /\ UNCHANGED fetched
       ELSE /\ gphase' = "fetched"
            /\ fetched' = f
            /\ running' = IF sync_suspends THEN 0 ELSE ev.seq
            /\ UNCHANGED <<inflight, done>>
    /\ last' = [op |-> "sync_fetch", seq |-> ev.seq, fails |-> fails]
    /\ UNCHANGED <<store, obj, rc, held, nextOid, mem, nextMid, gmembers, gchannels,
                   groles, msg, nextMsg, cache, hasDict, guilds, inbox, nextSeq, log>>
    /\ UNCHANGED <<chan, server, repos>>

\* _sync: the member loop, or the bot's own member
SyncMembers(ev) ==
    /\ ev \in inflight /\ ev.kind = "GUILD_CREATE" /\ gphase = "fetched" /\ CanRun(ev)
    /\ Commit(sync_members(World, fetched))
    /\ gphase' = "members"
    /\ running' = IF sync_suspends THEN 0 ELSE ev.seq
    /\ log' = Append(log, ev.seq)
    /\ last' = [op |-> "sync_members", seq |-> ev.seq]
    /\ UNCHANGED <<held, gchannels, groles, nextMsg, cache, hasDict, guilds, fetched,
                   inbox, nextSeq, inflight, done>>
    /\ UNCHANGED <<chan, server, repos>>

\* _sync: the role loop
SyncRoles(ev) ==
    /\ ev \in inflight /\ ev.kind = "GUILD_CREATE" /\ gphase = "members" /\ CanRun(ev)
    /\ groles' = sync_roles(groles, fetched)
    /\ gphase' = "roles"
    /\ running' = IF sync_suspends THEN 0 ELSE ev.seq
    /\ log' = Append(log, ev.seq)
    /\ last' = [op |-> "sync_roles", seq |-> ev.seq]
    /\ UNCHANGED <<store, obj, rc, held, nextOid, mem, nextMid, gmembers, gchannels,
                   msg, nextMsg, cache, hasDict, guilds, fetched, inbox, nextSeq,
                   inflight, done>>
    /\ UNCHANGED <<chan, server, repos>>

\* _sync: the channel loop, after which _from_data and __init__ return
SyncChannels(ev) ==
    /\ ev \in inflight /\ ev.kind = "GUILD_CREATE" /\ gphase = "roles" /\ CanRun(ev)
    /\ gchannels' = sync_channels(gchannels, fetched)
    /\ gphase' = "built"
    /\ running' = ev.seq
    /\ log' = Append(log, ev.seq)
    /\ last' = [op |-> "sync_channels", seq |-> ev.seq]
    /\ UNCHANGED <<store, obj, rc, held, nextOid, mem, nextMid, gmembers, groles,
                   msg, nextMsg, cache, hasDict, guilds, fetched, inbox, nextSeq,
                   inflight, done>>
    /\ UNCHANGED <<chan, server, repos>>

\* the constructed guild is entered in the guild map (_add_guild)
AddGuild(ev) ==
    /\ ev \in inflight /\ ev.kind = "GUILD_CREATE" /\ CanRun(ev)
    /\ Guild_init_returned(gphase)
    /\ guilds = {}
    /\ guilds' = {GuildId}
    /\ running' = ev.seq
    /\ log' = Append(log, ev.seq)
    /\ last' = [op |-> "_add_guild", seq |-> ev.seq]
    /\ UNCHANGED <<store, obj, rc, held, nextOid, mem, nextMid, gmembers, gchannels,
                   groles, msg, nextMsg, cache, hasDict, gphase, fetched, inbox,
                   nextSeq, inflight, done>>
    /\ UNCHANGED <<chan, server, repos>>

\* the GUILD_CREATE handler returns
GuildDone(ev) ==
    /\ ev \in inflight /\ ev.kind = "GUILD_CREATE" /\ CanRun(ev)
    /\ gphase = "built" /\ guilds # {}
    /\ inflight' = inflight \ {ev}
    /\ done' = done \cup {ev.seq}
    /\ running' = 0
    /\ last' = [op |-> "guild_done", seq |-> ev.seq]
    /\ UNCHANGED <<store, obj, rc, held, nextOid, mem, nextMid, gmembers, gchannels,
                   groles, msg, nextMsg, cache, hasDict, gphase, guilds, fetched,
                   inbox, nextSeq, log>>
    /\ UNCHANGED <<chan, server, repos>>

\* MESSAGE_CREATE: the message is constructed; an event for a guild that is
\* not cached is not handled
MsgConstruct(ev) ==
    /\ ev \in inflight /\ ev.kind = "MESSAGE_CREATE" /\ ev.pc = "start" /\ CanRun(ev)
    /\ IF guilds = {} \/ nextMsg > MaxMsgs
       THEN /\ inflight' = inflight \ {ev}
            /\ done' = done \cup {ev.seq}
            /\ running' = 0
            /\ last' = [op |-> "unhandled", seq |-> ev.seq]
            /\ UNCHANGED <<store, obj, rc, nextOid, mem, nextMid, gmembers, msg,
                           nextMsg, log>>
       ELSE LET w == Message_init(World, nextMsg, ev.ch, ev.data) IN
            /\ Commit(IF w.raised # "none" THEN [w EXCEPT !.msg[nextMsg] = NoMsg] ELSE w)
            /\ nextMsg' = nextMsg + 1
            /\ inflight' = IF w.raised # "none" THEN inflight \ {ev}
                           ELSE (inflight \ {ev})
                                    \cup {[ev EXCEPT !.m = nextMsg, !.pc = "cache"]}
            /\ done' = IF w.raised # "none" THEN done \cup {ev.seq} ELSE done
            /\ running' = IF w.raised # "none" THEN 0 ELSE ev.seq
            /\ log' = Append(log, ev.seq)
            /\ last' = [op |-> "construct", seq |-> ev.seq, raised |-> w.raised]
    /\ UNCHANGED <<held, gchannels, groles, cache, hasDict, gphase, guilds, fetched,
                   inbox, nextSeq>>
    /\ UNCHANGED <<chan, server, repos>>

\* MESSAGE_CREATE: the constructed message is appended to the cache
MsgCache(ev) ==
    /\ ev \in inflight /\ ev.kind = "MESSAGE_CREATE" /\ ev.pc = "cache" /\ CanRun(ev)
    /\ cache' = cache_append(cache, ev.m)
    /\ Commit(Sweep(World, cache_append(cache, ev.m)))
    /\ inflight' = inflight \ {ev}
    /\ done' = done \cup {ev.seq}
    /\ running' = 0
    /\ log' = Append(log, ev.seq)
    /\ last' = [op |-> "cache", seq |-> ev.seq]
    /\ UNCHANGED <<held, gchannels, groles, nextMsg, hasDict, gphase, guilds, fetched,
                   inbox, nextSeq>>
    /\ UNCHANGED <<chan, server, repos>>

\* another task of the event loop looks the guild up (_get_guild)
Reader ==
    /\ running = 0
    /\ last' = [op |-> "_get_guild", found |-> guilds # {}, phase |-> gphase]
    /\ UNCHANGED <<store, obj, rc, held, nextOid, mem, nextMid, gmembers, gchannels,
                   groles, msg, nextMsg, cache, hasDict, gphase, guilds, fetched,
                   inbox, nextSeq, inflight, running, log, done>>
    /\ UNCHANGED <<chan, server, repos>>

(* --------------------------- role comparator --------------------------- *)

MaxRoleId == 4
CmpGuildIds == {2, 3}
CmpRoles == [id : 1..MaxRoleId, guild : CmpGuildIds]

\* Role.__lt__ without the test of the two guilds
Role__lt__any_guild(self, other) ==
    IF self.id = self.guild
    THEN (IF other.id # self.guild THEN "True" ELSE "False")
    ELSE IF self.id < other.id THEN "True"
    ELSE "False"

\* Role.__lt__: roles of two guilds raise; the role whose id is the guild id
\* is below every other role; else the ids decide
Role__lt__(self, other) ==
    IF self.guild # other.guild THEN "RuntimeError"
    ELSE IF self.id = self.guild
    THEN (IF other.id # self.guild THEN "True" ELSE "False")
    ELSE IF self.id < other.id THEN "True"
    ELSE IF self.id = other.id
    THEN (IF self.id > other.id THEN "True" ELSE "False")
    ELSE "False"

Not(r) == CASE r = "True" -> "False" [] r = "False" -> "True" [] OTHER -> r

\* Role.__le__: not (other < self)
Role__le__(self, other) == Not(Role__lt__(other, self))

\* Role.__gt__: other < self
Role__gt__(self, other) == Role__lt__(other, self)

\* Role.__ge__: not (self < other)
Role__ge__(self, other) == Not(Role__lt__(self, other))

\* two roles are compared with one of <, <=, >, >=
RoleCompare(op, a, b) ==
    /\ last' = [op |-> op, a |-> a, b |-> b,
                ret |-> CASE op = "lt" -> Role__lt__(a, b)
                          [] op = "le" -> Role__le__(a, b)
                          [] op = "gt" -> Role__gt__(a, b)
                          [] op = "ge" -> Role__ge__(a, b)]
    /\ UNCHANGED <<store, obj, rc, held, nextOid, mem, nextMid, gmembers, gchannels,
                   groles, msg, nextMsg, cache, hasDict, gphase, guilds, fetched,
                   inbox, nextSeq, inflight, running, log, done>>
    /\ UNCHANGED <<chan, server, repos>>

(* ------------------------------ role edit ------------------------------ *)

\* a Python value: its type and its text; 0, False and '' are the falsy ones
PyVal(kind, v) == [kind |-> kind, v |-> v]

\* the keyword arguments of Role.edit: <<>> is MISSING; colour may be an int
\* or a Colour object
RoleEditArgs ==
    [name : {<<>>, <<PyVal("str", "")>>, <<PyVal("str", "n")>>},
     colour : {<<>>, <<PyVal("int", "0")>>, <<PyVal("Colour", "5")>>},
     color : {<<>>, <<PyVal("int", "0")>>, <<PyVal("Colour", "7")>>},
     hoist : {<<>>, <<PyVal("bool", "False")>>, <<PyVal("bool", "True")>>}]

\* an edit that sends the fields whose values are truthy
edit_passed_truthy(arg) == arg # <<>> /\ arg[1].v \notin {"", "0", "False"}

\* 'x is not MISSING'
edit_passed(arg) == arg # <<>>

\* colour if isinstance(colour, int) else colour.value
colour_value(c) == PyVal("int", c.v)

\* Role.edit: the payload given to http.edit_role
Role_edit_payload(args) ==
    LET colour == IF edit_passed(args.color) THEN args.color ELSE args.colour
    IN [info |-> [color |-> IF edit_passed(colour) THEN <<colour_value(colour[1])>> ELSE <<>>,
                  name |-> IF edit_passed(args.name) THEN args.name ELSE <<>>,
                  hoist |-> IF edit_passed(args.hoist) THEN args.hoist ELSE <<>>],
        filter |-> [color |-> IF edit_passed(colour) THEN 1 ELSE 0,
                    name |-> IF edit_passed(args.name) THEN 1 ELSE 0,
                    hoist |-> IF edit_passed(args.hoist) THEN 1 ELSE 0]]

\* Role.edit, up to the request it sends
RoleEdit(role, args) ==
    /\ last' = [op |-> "role_edit", role |-> role, args |-> args,
                calls |-> <<[api |-> "edit_role", guild |-> role.guild, id |-> role.id,
                             payload |-> Role_edit_payload(args)]>>]
    /\ UNCHANGED <<store, obj, rc, held, nextOid, mem, nextMid, gmembers, gchannels,
                   groles, msg, nextMsg, cache, hasDict, gphase, guilds, fetched,
                   inbox, nextSeq, inflight, running, log, done, chan, server, repos>>

(* ------------------------- equality and hashing ------------------------ *)

MaxEmojiId == 3
HashShift == 22

\* PartialEmoji.__init__: the name is always 'emoji'
PartialEmoji_init(custom, id) ==
    [tag |-> "PartialEmoji", custom |-> custom, animated |-> FALSE, name |-> "emoji",
     id |-> id]

\* PartialEmoji.from_dict: custom when the payload's type is 1
PartialEmoji_from_dict(data) == PartialEmoji_init(data.type = 1, data.id)

\* the emoji that payloads give, and an object that is no emoji
Emojis == {PartialEmoji_from_dict(d) : d \in [type : {1, 2}, id : 1..MaxEmojiId]}
EmojiOthers == Emojis \cup {[tag |-> "str"]}

\* PartialEmoji.__eq__
PartialEmoji__eq__(self, other) ==
    IF ~self.custom
    THEN other.tag = "PartialEmoji" /\ self.name = other.name
    ELSE IF other.tag = "PartialEmoji"
    THEN self.id = other.id
    ELSE FALSE

\* PartialEmoji.__hash__: hash((self.id, self.name)), equal for equal pairs
PartialEmoji__hash__(self) == <<self.id, self.name>>

\* ids of users: two pairs that differ in the low bits only
EqIds == {0, 1, 2^HashShift, 2^HashShift + 1}

\* user objects with any fields, and an object of the id that is no user
EqUsers ==
    [id : EqIds, name : Usernames, avatar : {"none", "av"}, bot : BOOLEAN,
     stored : {FALSE}]
EqOthers ==
    {[tag |-> "user", o |-> u] : u \in EqUsers}
    \cup {[tag |-> "role", o |-> [id |-> i]] : i \in EqIds}

\* update payloads for a user of the id
EqPayloads(id) ==
    [id : {id}, username : Usernames, avatar : Avatars, bot : BotFlags]

\* an equality that looks at the name as well
BaseUser__eq__with_name(self, other) ==
    other.tag = "user" /\ other.o.id = self.id /\ other.o.name = self.name

\* BaseUser.__eq__: isinstance(other, _UserTag) and other.id == self.id
BaseUser__eq__(self, other) == other.tag = "user" /\ other.o.id = self.id

\* BaseUser.__hash__: self.id >> 22
BaseUser__hash__(self) == self.id \div 2^HashShift

\* a == b for a PartialEmoji a, b == a when b is one too, and their hashes
EmojiCompare(a, b) ==
    /\ last = NoLast
    /\ last' = [op |-> "emoji_eq", a |-> a, b |-> b, ret |-> PartialEmoji__eq__(a, b),
                rev |-> b.tag = "PartialEmoji" /\ PartialEmoji__eq__(b, a),
                hash |-> PartialEmoji__hash__(a),
                hashb |-> IF b.tag = "PartialEmoji" THEN PartialEmoji__hash__(b) ELSE <<>>]
    /\ UNCHANGED <<store, obj, rc, held, nextOid, mem, nextMid, gmembers, gchannels,
                   groles, msg, nextMsg, cache, hasDict, gphase, guilds, fetched,
                   inbox, nextSeq, inflight, running, log, done, chan, server, repos>>

\* a == b and the hashes, then a._update(data), then a == b and the hashes again
UserCompare(a, data, b) ==
    /\ last = NoLast
    /\ LET a2 == BaseUser_update(a, data)
       IN last' = [op |-> "user_eq", a |-> a, b |-> b, data |-> data, a2 |-> a2,
                   eq |-> BaseUser__eq__(a, b),
                   hash |-> BaseUser__hash__(a),
                   eq2 |-> BaseUser__eq__(a2, b),
                   hash2 |-> BaseUser__hash__(a2),
                   hashb |-> IF b.tag = "user" THEN BaseUser__hash__(b.o) ELSE 0]
    /\ UNCHANGED <<store, obj, rc, held, nextOid, mem, nextMid, gmembers, gchannels,
                   groles, msg, nextMsg, cache, hasDict, gphase, guilds, fetched,
                   inbox, nextSeq, inflight, running, log, done, chan, server, repos>>

(* --------------------------- channel moves ----------------------------- *)

MaxChan == 3
MaxOffset == 2

\* the channels of the guild, c0..c3 in the order they were added to _channels
MvChans == 0..MaxChan
\* a channel object that is not among the guild's channels
Stranger == MaxChan + 6
\* category_id None, and the id of the one category
NoCategory == 0
CategoryId == 1

\* the positions, categories and sorting buckets the channels may have
ChanConfigs ==
    {[c \in MvChans |-> [position |-> p[c], category_id |-> g[c], bucket |-> b[c]]] :
        p \in {[c \in MvChans |-> c], [c \in MvChans |-> MaxChan - c],
               [c \in MvChans |-> 0], [c \in MvChans |-> c \div 2]},
        g \in {[c \in MvChans |-> NoCategory],
               [c \in MvChans |-> IF c = MaxChan THEN CategoryId ELSE NoCategory],
               [c \in MvChans |-> IF c % 2 = 0 THEN CategoryId ELSE NoCategory]},
        b \in {[c \in MvChans |-> "text"],
               [c \in MvChans |-> IF c = 0 THEN "category" ELSE "text"]}}

NoKwargs ==
    [beginning |-> <<>>, end |-> <<>>, before |-> <<>>, after |-> <<>>,
     offset |-> <<>>, category |-> <<>>]

\* the keyword arguments of move: a key may be missing; beginning may be passed False
MoveKwargs ==
    [beginning : {<<>>, <<FALSE>>, <<TRUE>>}, end : {<<>>, <<TRUE>>},
     before : {<<>>, <<1>>, <<MaxChan>>, <<Stranger>>},
     after : {<<>>, <<1>>, <<Stranger>>},
     offset : {<<>>} \cup {<<o>> : o \in {-1, 0, MaxOffset}},
     category : {<<>>, <<NoCategory>>, <<CategoryId>>}]

\* bool(a) of an argument that may be missing: a flag that is True, a channel
Truthy(kw, k) ==
    IF k \in {"beginning", "end"} THEN kw[k] # <<>> /\ kw[k][1] ELSE kw[k] # <<>>

\* channels.sort(key=(position, id)): c comes before d
ByPositionId(ch, c, d) ==
    \/ ch[c].position < ch[d].position
    \/ ch[c].position = ch[d].position /\ c <= d

\* a stable sort on the position alone of a list that is in the order of the ids
ByPosition(ch, c, d) == ByPositionId(ch, c, d)

RECURSIVE SortChannels(_, _)
SortChannels(ch, S) ==
    IF S = {} THEN <<>>
    ELSE LET m == CHOOSE c \in S : \A d \in S : ByPositionId(ch, c, d)
         IN <<m>> \o SortChannels(ch, S \ {m})

\* a removal that leaves the list as it is
Without_nothing(q, x) == q

\* channels.remove(x), where a missing x raises ValueError that is passed over
Without(q, x) == SelectSeq(q, LAMBDA c : c # x)

\* list.insert(i, x): an index past the end appends
InsertAt(q, i, x) ==
    LET k == IF i > Len(q) THEN Len(q) ELSE i
    IN SubSeq(q, 1, k) \o <<x>> \o SubSeq(q, k + 1, Len(q))

\* next((i for i, c in enumerate(channels) if c.id == id), None), <<>> for None
IndexOf(q, id) ==
    IF \E i \in 1..Len(q) : q[i] = id
    THEN <<(CHOOSE i \in 1..Len(q) : q[i] = id) - 1>>
    ELSE <<>>

\* a payload that carries the parent_id on every entry
BulkPayload_parent_on_all(q, self, parent) ==
    [i \in 1..Len(q) |-> [id |-> q[i], position |-> i - 1, parent_id |-> parent]]

\* the payload of bulk_channel_update: every channel with its index as position,
\* and the parent_id for the subject when one was given
BulkPayload(q, self, parent) ==
    [i \in 1..Len(q) |->
        [id |-> q[i], position |-> i - 1,
         parent_id |-> IF parent # <<>> /\ q[i] = self THEN parent ELSE <<>>]]

MoveResult(raised, calls) == [raised |-> raised, calls |-> calls]

\* the insertion index move resolves from the placement, <<>> when there is none
ResolveIndex(kw, channels) ==
    IF Truthy(kw, "beginning") THEN <<0>>
    ELSE IF Truthy(kw, "end") THEN <<Len(channels)>>
    ELSE IF Truthy(kw, "before") THEN IndexOf(channels, kw.before[1])
    ELSE IF Truthy(kw, "after")
    THEN (IF IndexOf(channels, kw.after[1]) = <<>> THEN <<>>
          ELSE <<IndexOf(channels, kw.after[1])[1] + 1>>)
    ELSE <<>>

\* the candidate list of move, sorted, without the subject
Candidates(ch, self, kw) ==
    LET cat == IF kw.category # <<>> /\ kw.category[1] # NoCategory
               THEN kw.category[1] ELSE ch[self].category_id
    IN Without(SortChannels(ch, {c \in MvChans : /\ ch[c].bucket = ch[self].bucket
                                                  /\ ch[c].category_id = cat}),
               self)

\* a move that accepts several placement arguments and uses the first
move_first_placement(n) == FALSE

\* sum(bool(a) for a in (beginning, end, before, after)) > 1
move_too_many(n) == n > 1

\* a move that puts the subject at the end when the sibling is not found
move_unresolved_at_end(index, channels) == IF index = <<>> THEN <<Len(channels)>> ELSE index

\* the index move goes on with: None is kept, and raises
move_unresolved(index, channels) == index

\* a move that inserts at the resolved index and drops the offset
move_target_no_offset(index, offset) == IF index < 0 THEN 0 ELSE index

\* max(index + offset, 0)
move_target(index, offset) == IF index + offset < 0 THEN 0 ELSE index + offset

\* GuildChannel.move
move(ch, self, kw) ==
    IF kw = NoKwargs
    THEN MoveResult("none", <<>>)
    ELSE IF move_too_many(Cardinality({k \in {"beginning", "end", "before", "after"} :
                                          Truthy(kw, k)}))
    THEN MoveResult("InvalidArgument", <<>>)
    ELSE LET channels == Candidates(ch, self, kw)
             index == move_unresolved(ResolveIndex(kw, channels), channels)
             offset == IF kw.offset = <<>> THEN 0 ELSE kw.offset[1]
         IN IF index = <<>>
            THEN MoveResult("InvalidArgument", <<>>)
            ELSE MoveResult("none",
                    <<[api |-> "bulk_channel_update",
                       payload |-> BulkPayload(
                                      InsertAt(channels, move_target(index[1], offset), self),
                                      self, kw.category)]>>)

\* the options of an edit: a key may be missing; category may be None; type
\* is a ChannelType or something else, here a str
EditOptions ==
    [category : {<<>>, <<NoCategory>>, <<CategoryId>>},
     position : {<<>>, <<-1>>, <<0>>, <<MaxOffset>>},
     type : {<<>>, <<"ChannelType">>, <<"str">>},
     name : {<<>>, <<"n">>}]

\* next((i for i, c in enumerate(channels) if c.position >= position), len(channels))
IndexAtPosition(ch, q, position) ==
    IF \E i \in 1..Len(q) : ch[q[i]].position >= position
    THEN (CHOOSE i \in 1..Len(q) :
             /\ ch[q[i]].position >= position
             /\ \A j \in 1..(i - 1) : ch[q[j]].position < position) - 1
    ELSE Len(q)

\* GuildChannel._move; the subject is one of guild.channels, so remove finds it
_move(ch, self, position, parent_id) ==
    IF position < 0
    THEN MoveResult("InvalidArgument", <<>>)
    ELSE LET channels == Without(SortChannels(ch, {c \in MvChans :
                                                     ch[c].bucket = ch[self].bucket}),
                                 self)
             index == IndexAtPosition(ch, channels, position)
         IN MoveResult("none",
               <<[api |-> "bulk_channel_update",
                  payload |-> BulkPayload(InsertAt(channels, index, self), self, parent_id)]>>)

\* GuildChannel._edit
_edit(ch, self, options) ==
    LET parent_id == options.category
        moved == IF options.position = <<>> THEN MoveResult("none", <<>>)
                 ELSE _move(ch, self, options.position[1], parent_id)
        left == [name |-> options.name,
                 type |-> options.type,
                 parent_id |-> IF options.position = <<>> THEN parent_id ELSE <<>>]
    IN IF moved.raised # "none" THEN moved
       ELSE IF options.type = <<"str">>
       THEN MoveResult("InvalidArgument", moved.calls)
       ELSE IF left = [name |-> <<>>, type |-> <<>>, parent_id |-> <<>>]
       THEN moved
       ELSE MoveResult("none", moved.calls \o <<[api |-> "edit_channel", payload |-> left]>>)

\* the caller of a channel operation has taken its result
Return ==
    /\ last # NoLast
    /\ last' = NoLast
    /\ UNCHANGED <<store, obj, rc, held, nextOid, mem, nextMid, gmembers, gchannels,
                   groles, msg, nextMsg, cache, hasDict, gphase, guilds, fetched,
                   inbox, nextSeq, inflight, running, log, done, chan, server, repos>>

\* a caller moves a channel of the guild; the local channels change only when
\* the gateway reports the update
Move(self, kw) ==
    /\ last = NoLast
    /\ LET r == move(chan, self, kw)
       IN last' = [op |-> "move", self |-> self, kw |-> kw,
                   raised |-> r.raised, calls |-> r.calls]
    /\ UNCHANGED <<store, obj, rc, held, nextOid, mem, nextMid, gmembers, gchannels,
                   groles, msg, nextMsg, cache, hasDict, gphase, guilds, fetched,
                   inbox, nextSeq, inflight, running, log, done, chan, server, repos>>

\* a caller edits a channel of the guild
Edit(self, options) ==
    /\ last = NoLast
    /\ LET r == _edit(chan, self, options)
       IN last' = [op |-> "edit", self |-> self, options |-> options,
                   raised |-> r.raised, calls |-> r.calls]
    /\ UNCHANGED <<store, obj, rc, held, nextOid, mem, nextMid, gmembers, gchannels,
                   groles, msg, nextMsg, cache, hasDict, gphase, guilds, fetched,
                   inbox, nextSeq, inflight, running, log, done, chan, server, repos>>

(* ------------------------ interleaved repositions ---------------------- *)

\* the two callers whose repositions run interleaved
Tasks == {"a", "b"}

\* a caller that has not called yet
NoTask == [pc |-> "idle", payload |-> <<>>, open |-> {}]

\* the moves the callers make: a single placement, no offset, no category
ReposKwargs ==
    {kw \in MoveKwargs :
        /\ kw.offset = <<>> /\ kw.category = <<>> /\ kw.after = <<>>
        /\ kw.beginning # <<FALSE>> /\ kw.before \in {<<>>, <<1>>}}

\* the positions the callers edit a channel to
ReposPositions == {0, MaxOffset}

\* the caller is suspended in asyncio.gather with one request per payload entry
Awaiting(payload) ==
    [pc |-> "awaiting", payload |-> payload, open |-> 1..Len(payload)]

\* what the coroutine is after one of its requests was answered: gather
\* raises on the first request that fails and returns when all have succeeded;
\* the requests still open run on
gather_answered(task, i, failed) ==
    [task EXCEPT !.open = @ \ {i},
                 !.pc = IF task.pc # "awaiting" THEN @
                        ELSE IF failed THEN "raised"
                        ELSE IF task.open = {i} THEN "returned"
                        ELSE @]

\* the server sets the position of the channel a request names
bulk_channel_update_request(srv, entry) == [srv EXCEPT ![entry.id] = entry.position]

\* a caller moves a channel and is suspended at the bulk update; no local
\* channel is assigned a position
MoveBegin(t, self, kw) ==
    /\ repos[t].pc = "idle"
    /\ LET r == move(chan, self, kw)
       IN /\ r.raised = "none"
          /\ r.calls # <<>>
          /\ repos' = [repos EXCEPT ![t] = Awaiting(r.calls[1].payload)]
    /\ UNCHANGED <<store, obj, rc, held, nextOid, mem, nextMid, gmembers, gchannels,
                   groles, msg, nextMsg, cache, hasDict, gphase, guilds, fetched,
                   inbox, nextSeq, inflight, running, log, done, chan, server, last>>

\* a caller edits the position of a channel and is suspended at the bulk update
MoveToBegin(t, self, position) ==
    /\ repos[t].pc = "idle"
    /\ LET r == _move(chan, self, position, <<>>)
       IN /\ r.raised = "none"
          /\ repos' = [repos EXCEPT ![t] = Awaiting(r.calls[1].payload)]
    /\ UNCHANGED <<store, obj, rc, held, nextOid, mem, nextMid, gmembers, gchannels,
                   groles, msg, nextMsg, cache, hasDict, gphase, guilds, fetched,
                   inbox, nextSeq, inflight, running, log, done, chan, server, last>>

\* the server answers one request of a bulk update
RequestDone(t, i) ==
    /\ i \in repos[t].open
    /\ server' = bulk_channel_update_request(server, repos[t].payload[i])
    /\ repos' = [repos EXCEPT ![t] = gather_answered(@, i, FALSE)]
    /\ UNCHANGED <<store, obj, rc, held, nextOid, mem, nextMid, gmembers, gchannels,
                   groles, msg, nextMsg, cache, hasDict, gphase, guilds, fetched,
                   inbox, nextSeq, inflight, running, log, done, chan, last>>

\* one request of a bulk update fails; a single failure is followed
RequestFails(t, i) ==
    /\ i \in repos[t].open
    /\ \A u \in Tasks : repos[u].pc # "raised"
    /\ repos' = [repos EXCEPT ![t] = gather_answered(@, i, TRUE)]
    /\ UNCHANGED <<store, obj, rc, held, nextOid, mem, nextMid, gmembers, gchannels,
                   groles, msg, nextMsg, cache, hasDict, gphase, guilds, fetched,
                   inbox, nextSeq, inflight, running, log, done, chan, server, last>>

(* ------------------------ fetch and get accessors ---------------------- *)

\* a guild other than the one the client holds
OtherGuildId == GuildId + 1

\* the ids a caller may look up: 0 is the id of nothing
AccessorIds == {0} \cup ChanIds \cup RoleIds \cup UserIds

\* what http.get_channel may return for a channel id
ChannelData == [type : ChannelTypes, guild_id : {GuildId, OtherGuildId}]

\* _channel_factory: the constructor for a type tag, None for an unknown tag
_channel_factory(type) == _guild_channel_factory(type)

FetchResult(raised, ret) == [raised |-> raised, ret |-> ret]

\* a fetch that takes the channel of whatever guild the server names
fetch_channel_any_guild(self_id, guild_id) == FALSE

\* self.id != guild_id
fetch_channel_other_guild(self_id, guild_id) == self_id # guild_id

\* Guild.fetch_channel, after http.get_channel has returned data
fetch_channel(id, data) ==
    IF _channel_factory(data.type) = "None"
    THEN FetchResult("InvalidData", NoChannel)
    ELSE IF fetch_channel_other_guild(GuildId, data.guild_id)
    THEN FetchResult("InvalidData", NoChannel)
    ELSE FetchResult("none", [exists |-> TRUE, name |-> ChannelName(id)])

\* a lookup that answers with a channel of the id when none is cached
get_channel_or_partial(chs, id) == [exists |-> TRUE, name |-> ChannelName(id)]

\* Guild.get_channel: self._channels.get(channel_id)
get_channel(chs, id) == IF id \in DOMAIN chs THEN chs[id] ELSE NoChannel

\* Guild.get_role: self._roles.get(role_id)
get_role(rs, id) == IF id \in DOMAIN rs THEN rs[id] ELSE NoRole

\* ConnectionState._get_guild: self._guilds.get(guild_id), 0 for None
_get_guild(gs, id) == IF id \in gs THEN id ELSE 0

\* Guild.fetch_channel: the REST call fails, or its data is checked and the
\* channel built from it is returned
FetchChannel(id, data, fails) ==
    /\ guilds # {}
    /\ LET r == IF fails THEN FetchResult("HTTPException", NoChannel)
                ELSE fetch_channel(id, data)
       IN last' = [op |-> "fetch_channel", id |-> id, data |-> data,
                   raised |-> r.raised, ret |-> r.ret, calls |-> <<"get_channel">>]
    /\ UNCHANGED <<store, obj, rc, held, nextOid, mem, nextMid, gmembers, gchannels,
                   groles, msg, nextMsg, cache, hasDict, gphase, guilds, fetched,
                   inbox, nextSeq, inflight, running, log, done, chan, server, repos>>

\* Guild.fetch_member: the REST call fails, or a Member is built from its data
FetchMember(data, fails) ==
    /\ guilds # {}
    /\ IF fails
       THEN /\ last' = [op |-> "fetch_member", id |-> data.user.id,
                        raised |-> "HTTPException", ret |-> 0,
                        calls |-> <<"get_member">>]
            /\ UNCHANGED <<store, obj, rc, nextOid, mem, nextMid, gmembers, msg>>
       ELSE LET w == Member_init(World, data.user, [nick |-> data.nick])
            IN /\ Commit(w)
               /\ last' = [op |-> "fetch_member", id |-> data.user.id,
                           raised |-> "none", ret |-> w.ret,
                           calls |-> <<"get_member">>]
    /\ UNCHANGED <<held, gchannels, groles, nextMsg, cache, hasDict, gphase, guilds,
                   fetched, inbox, nextSeq, inflight, running, log, done, chan, server, repos>>

\* Guild.get_channel
GetChannel(id) ==
    /\ last' = [op |-> "get_channel", id |-> id, ret |-> get_channel(gchannels, id),
                calls |-> <<>>]
    /\ UNCHANGED <<store, obj, rc, held, nextOid, mem, nextMid, gmembers, gchannels,
                   groles, msg, nextMsg, cache, hasDict, gphase, guilds, fetched,
                   inbox, nextSeq, inflight, running, log, done, chan, server, repos>>

\* Guild.get_member
GetMember(id) ==
    /\ last' = [op |-> "get_member", id |-> id, ret |-> get_member(World, id),
                calls |-> <<>>]
    /\ UNCHANGED <<store, obj, rc, held, nextOid, mem, nextMid, gmembers, gchannels,
                   groles, msg, nextMsg, cache, hasDict, gphase, guilds, fetched,
                   inbox, nextSeq, inflight, running, log, done, chan, server, repos>>

\* Guild.get_role
GetRole(id) ==
    /\ last' = [op |-> "get_role", id |-> id, ret |-> get_role(groles, id),
                calls |-> <<>>]
    /\ UNCHANGED <<store, obj, rc, held, nextOid, mem, nextMid, gmembers, gchannels,
                   groles, msg, nextMsg, cache, hasDict, gphase, guilds, fetched,
                   inbox, nextSeq, inflight, running, log, done, chan, server, repos>>

\* getGuild(id): the guild of the id in the guild map, or None
GetGuild(id) ==
    /\ last' = [op |-> "getGuild", id |-> id, ret |-> _get_guild(guilds, id),
                calls |-> <<>>]
    /\ UNCHANGED <<store, obj, rc, held, nextOid, mem, nextMid, gmembers, gchannels,
                   groles, msg, nextMsg, cache, hasDict, gphase, guilds, fetched,
                   inbox, nextSeq, inflight, running, log, done, chan, server, repos>>

(* ------------------- a full-guild payload, once more ------------------- *)

\* what the earlier sync of a guild with two members returned
FullFetch ==
    [channels |-> <<[id |-> 1, type |-> "text"], [id |-> 2, type |-> "unknown"]>>,
     roles |-> << <<1>> >>, members |-> <<BotMember, OtherMember>>]

\* the 'roles' of a guild payload: the key may be missing
GuildPayloads == [roles : {<<>>, << <<2>> >>}]

\* a guild that goes on with the channels of the guild object it replaces
Guild_init_channels_kept(prev) == prev

\* Guild.__init__: self._channels = {} in the new guild object
Guild_init_channels(prev) == [c \in ChanIds |-> NoChannel]

\* Guild.__init__: self._members = {} in the new guild object
Guild_init_members(prev) == [u \in UserIds |-> NoEntry]

\* _from_data: self._roles = {}, then one Role for each of guild.get('roles', [])
from_data_roles(data) ==
    [r \in RoleIds |->
        IF Has(data, "roles") /\ \E i \in 1..Len(Val(data, "roles")) : Val(data, "roles")[i] = r
        THEN [exists |-> TRUE, name |-> RoleName(r)]
        ELSE NoRole]

\* a full-guild payload for the guild that is cached: Guild(data, state) is
\* constructed, which syncs without giving way to another task, and the new
\* object takes the place of the old one; when the sync raises, the old stays
UpsertGuild(data, f, fails) ==
    /\ guilds = {GuildId} /\ gphase = "built" /\ running = 0
    /\ IF fails
       THEN /\ last' = [op |-> "upsertGuild", data |-> data, f |-> f,
                        raised |-> "HTTPException", mid0 |-> nextMid,
                        before |-> [channels |-> gchannels, roles |-> groles,
                                    members |-> gmembers]]
            /\ UNCHANGED <<store, obj, rc, nextOid, mem, nextMid, gmembers, msg,
                           gchannels, groles, fetched>>
       ELSE /\ Commit(sync_members([World EXCEPT !.gmembers = Guild_init_members(@)], f))
            /\ groles' = sync_roles(from_data_roles(data), f)
            /\ gchannels' = sync_channels(Guild_init_channels(gchannels), f)
            /\ fetched' = f
            /\ last' = [op |-> "upsertGuild", data |-> data, f |-> f,
                        raised |-> "none", mid0 |-> nextMid,
                        before |-> [channels |-> gchannels, roles |-> groles,
                                    members |-> gmembers]]
    /\ UNCHANGED <<held, nextMsg, cache, hasDict, gphase, guilds, inbox, nextSeq,
                   inflight, running, log, done, chan, server, repos>>

(* ---------------------- channel lists of mixed types ------------------- *)

\* channel lists the server may return: the unknown tag first, last or absent
MixedChannels ==
    {<<[id |-> 2, type |-> "unknown"], [id |-> 1, type |-> "text"]>>,
     <<[id |-> 1, type |-> "text"], [id |-> 2, type |-> "unknown"]>>,
     <<[id |-> 1, type |-> "text"], [id |-> 2, type |-> "text"]>>,
     <<[id |-> 1, type |-> "unknown"]>>}

\* what sync_guild_channels_roles returns with such a channel list
MixedFetches ==
    {[f EXCEPT !.channels = cs] :
        f \in {FullFetch, [FullFetch EXCEPT !.members = <<>>]}, cs \in MixedChannels}

\* Guild.fetch_channels, after http.get_all_guild_channels has returned data:
\* convert raises at the first unknown tag, else every channel is built
fetch_channels(data) ==
    IF \E i \in 1..Len(data) : _guild_channel_factory(data[i].type) = "None"
    THEN FetchResult("InvalidData", <<>>)
    ELSE FetchResult("none", [i \in 1..Len(data) |->
                                 [exists |-> TRUE, name |-> ChannelName(data[i].id)]])

\* Guild.fetch_channels: the REST call fails, or the list is converted
FetchChannels(data, fails) ==
    /\ guilds # {}
    /\ LET r == IF fails THEN FetchResult("HTTPException", <<>>)
                ELSE fetch_channels(data)
       IN last' = [op |-> "fetch_channels", data |-> data, raised |-> r.raised,
                   ret |-> r.ret, calls |-> <<"get_all_guild_channels">>]
    /\ UNCHANGED <<store, obj, rc, held, nextOid, mem, nextMid, gmembers, gchannels,
                   groles, msg, nextMsg, cache, hasDict, gphase, guilds, fetched,
                   inbox, nextSeq, inflight, running, log, done, chan, server, repos>>

(* ---------------------------- guild removal ---------------------------- *)

\* a channel attribute that is looked up in the guild's channel map when read
Message_channel_looked_up(ms, chs, m) ==
    IF get_channel(chs, ms[m].channel).exists THEN ms[m].channel ELSE 0

\* Message.channel: the channel object the constructor stored
Message_channel(ms, chs, m) == ms[m].channel

\* removeGuild(id): the guild leaves the guild map and its channels, members
\* and roles go with it; the message cache is not touched
RemoveGuild(id) ==
    /\ guilds' = guilds \ {id}
    /\ IF id \in guilds
       THEN /\ gchannels' = [c \in ChanIds |-> NoChannel]
            /\ gmembers' = [u \in UserIds |-> NoEntry]
            /\ groles' = [r \in RoleIds |-> NoRole]
            /\ gphase' = "none"
       ELSE UNCHANGED <<gchannels, gmembers, groles, gphase>>
    /\ last' = [op |-> "removeGuild", id |-> id, found |-> id \in guilds,
                calls |-> <<>>]
    /\ UNCHANGED <<store, obj, rc, held, nextOid, mem, nextMid, msg, nextMsg, cache,
                   hasDict, fetched, inbox, nextSeq, inflight, running, log, done,
                   chan, server, repos>>

(* --------------------------- channel creation -------------------------- *)

\* the methods that create a channel: the five create_ methods and clone
CreateMethods == {"text", "live", "app", "thread", "category", "clone"}

\* what http.create_channel may return: the id and the name of the new channel
CreatedData == [id : ChanIds, name : {"new", "other"}]

\* the channel object built from the returned data
CreatedChannel(data) == [exists |-> TRUE, name |-> <<data.name, data.id>>]

\* a creation that returns the channel and leaves the map to the gateway
create_channel_not_cached(chs, data) == chs

\* self._channels[channel.id] = channel, the same line in every create_ method
\* and in _clone_impl
create_channel(chs, data) == [chs EXCEPT ![data.id] = CreatedChannel(data)]

\* Guild.create_text_channel, create_live_channel, create_app_channel,
\* create_thread_channel, create_category, and _clone_impl of a cached
\* channel: the REST call fails, or its data becomes a cached channel
CreateChannel(method, self, data, fails) ==
    /\ guilds # {}
    /\ method = "clone" => get_channel(gchannels, self).exists
    /\ gchannels' = IF fails THEN gchannels ELSE create_channel(gchannels, data)
    /\ last' = [op |-> "create_channel", method |-> method, data |-> data,
                raised |-> IF fails THEN "HTTPException" ELSE "none",
                ret |-> IF fails THEN NoChannel ELSE CreatedChannel(data),
                calls |-> <<"create_channel">>]
    /\ UNCHANGED <<store, obj, rc, held, nextOid, mem, nextMid, gmembers, groles, msg,
                   nextMsg, cache, hasDict, gphase, guilds, fetched, inbox, nextSeq,
                   inflight, running, log, done, chan, server, repos>>

(* ----------------------- roles of the cached guild --------------------- *)

\* what http.edit_role and http.create_role may return: the id and the name
RoleData == [id : RoleIds, name : {"new", "other"}]

\* Role(guild=..., data=data, state=...): the Role built from returned data
Role_init(data) == [exists |-> TRUE, name |-> <<data.name, data.id>>]

\* an edit that enters the role it built in the role map
role_map_after_updated(rs, data) == [rs EXCEPT ![data.id] = Role_init(data)]

\* the role map after Role.edit or Guild.create_role: neither method assigns
\* to guild._roles or calls _update on a cached Role
role_map_after(rs, data) == rs

\* Role.edit on a role of the cached guild: the request, then the Role built
\* from what the server returned
EditCachedRole(id, args, data, fails) ==
    /\ guilds # {}
    /\ get_role(groles, id).exists
    /\ groles' = IF fails THEN groles ELSE role_map_after(groles, data)
    /\ last' = [op |-> "Role.edit", id |-> id, args |-> args, data |-> data,
                raised |-> IF fails THEN "HTTPException" ELSE "none",
                ret |-> IF fails THEN NoRole ELSE Role_init(data),
                calls |-> <<[api |-> "edit_role", guild |-> GuildId, id |-> id,
                             payload |-> Role_edit_payload(args)]>>]
    /\ UNCHANGED <<store, obj, rc, held, nextOid, mem, nextMid, gmembers, gchannels,
                   msg, nextMsg, cache, hasDict, gphase, guilds, fetched, inbox,
                   nextSeq, inflight, running, log, done, chan, server, repos>>

\* Guild.create_role: the request, then the Role built from what the server
\* returned
CreateRole(data, fails) ==
    /\ guilds # {}
    /\ groles' = IF fails THEN groles ELSE role_map_after(groles, data)
    /\ last' = [op |-> "create_role", data |-> data,
                raised |-> IF fails THEN "HTTPException" ELSE "none",
                ret |-> IF fails THEN NoRole ELSE Role_init(data),
                calls |-> <<[api |-> "create_role", guild |-> GuildId]>>]
    /\ UNCHANGED <<store, obj, rc, held, nextOid, mem, nextMid, gmembers, gchannels,
                   msg, nextMsg, cache, hasDict, gphase, guilds, fetched, inbox,
                   nextSeq, inflight, running, log, done, chan, server, repos>>

(* ------------------------- initial states, specs ----------------------- *)

EmptyWorld ==
    [store |-> {}, obj |-> [o \in Oids |-> NoObj], rc |-> [o \in Oids |-> 0],
     nextOid |-> 1, mem |-> [i \in Mids |-> NoMem], nextMid |-> 1,
     gmembers |-> [u \in UserIds |-> NoEntry], msg |-> [m \in MsgIds |-> NoMsg],
     ret |-> 0, val |-> <<>>, raised |-> "none", trace |-> <<>>, ok |-> TRUE]

\* what the sync of the guild fetched in the states that start with a cached guild
InitFetch ==
    [channels |-> <<[id |-> 1, type |-> "text"], [id |-> 2, type |-> "unknown"]>>,
     roles |-> << <<1>> >>, members |-> <<>>]

InitWorld(w) ==
    /\ store = w.store
    /\ obj = w.obj
    /\ rc = w.rc
    /\ nextOid = w.nextOid
    /\ mem = w.mem
    /\ nextMid = w.nextMid
    /\ gmembers = w.gmembers
    /\ msg = w.msg

InitRest ==
    /\ held = [h \in Holders |-> 0]
    /\ nextMsg = 1
    /\ cache = <<>>
    /\ inbox = <<>>
    /\ nextSeq = 1
    /\ inflight = {}
    /\ running = 0
    /\ log = <<>>
    /\ done = {}
    /\ server = [c \in MvChans |-> chan[c].position]
    /\ repos = [t \in Tasks |-> NoTask]
    /\ last = NoLast

\* the connection state after construction: nothing is cached
Init ==
    /\ InitWorld(EmptyWorld)
    /\ gchannels = [c \in ChanIds |-> NoChannel]
    /\ groles = [r \in RoleIds |-> NoRole]
    /\ gphase = "none"
    /\ guilds = {}
    /\ fetched = NoFetch
    /\ hasDict = FALSE
    /\ chan = [c \in MvChans |-> [position |-> c, category_id |-> NoCategory,
                                  bucket |-> "text"]]
    /\ InitRest

\* the connection state after the guild was created and synced
InitSynced ==
    /\ InitWorld(sync_members(EmptyWorld, InitFetch))
    /\ gchannels = sync_channels([c \in ChanIds |-> NoChannel], InitFetch)
    /\ groles = sync_roles([r \in RoleIds |-> NoRole], InitFetch)
    /\ gphase = "built"
    /\ guilds = {GuildId}
    /\ fetched = InitFetch
    /\ hasDict \in BOOLEAN
    /\ chan = [c \in MvChans |-> [position |-> c, category_id |-> NoCategory,
                                  bucket |-> "text"]]
    /\ InitRest

\* the connection state after the guild was created and synced, with the bot
\* as its only member or with two members
InitUpsert ==
    /\ \E f \in {InitFetch, FullFetch} :
          /\ InitWorld(sync_members(EmptyWorld, f))
          /\ gchannels = sync_channels([c \in ChanIds |-> NoChannel], f)
          /\ groles = sync_roles([r \in RoleIds |-> NoRole], f)
          /\ fetched = f
    /\ gphase = "built"
    /\ guilds = {GuildId}
    /\ hasDict = FALSE
    /\ chan = [c \in MvChans |-> [position |-> c, category_id |-> NoCategory,
                                  bucket |-> "text"]]
    /\ InitRest

\* a guild whose channels have any of the positions and categories
InitChan ==
    /\ InitWorld(EmptyWorld)
    /\ gchannels = [c \in ChanIds |-> NoChannel]
    /\ groles = [r \in RoleIds |-> NoRole]
    /\ gphase = "none"
    /\ guilds = {}
    /\ fetched = NoFetch
    /\ hasDict = FALSE
    /\ chan \in ChanConfigs
    /\ InitRest

vars ==
    <<store, obj, rc, held, nextOid, mem, nextMid, gmembers, gchannels, groles, msg,
      nextMsg, cache, hasDict, gphase, guilds, fetched, inbox, nextSeq, inflight,
      running, log, done, chan, server, repos, last>>

\* the user operations, on at most MaxStoreObjs objects of the ids up to MaxStoreId
NextUser ==
    \/ \E h \in Holders, data \in UserPayloads :
          /\ data.id <= MaxStoreId
          /\ ExistingUser(data.id) # 0 \/ nextOid <= MaxStoreObjs
          /\ StoreUser(h, data)
    \/ \E h \in Holders, h2 \in Holders : nextOid <= MaxStoreObjs /\ UserCopy(h, h2)
    \/ \E h \in Holders : UserDel(h)
    \/ \E u \in UserIds : DerefAbsent(u)

NextCache ==
    \/ \E ch \in ChanIds, data \in PlainPayloads : MessageCreate(ch, data)
    \/ \E id \in MsgIds : GetMessage(id)
    \/ \E hs \in BOOLEAN, id \in MsgIds : CachedMessage(hs, id)

NextMsg ==
    \/ \E data \in NewMsgPayloads : nextMsg <= MaxRichMsgs /\ MessageCreate(1, data)
    \/ \E m \in MsgIds, data \in MsgPayloads : MessageUpdate(m, data)

NextProps ==
    \/ \E data \in PropPayloads : nextMsg <= MaxRichMsgs /\ MessageCreate(1, data)
    \/ \E m \in MsgIds, data \in PropPayloads : MessageUpdate(m, data)
    \/ \E m \in MsgIds, prop \in Props : ReadProp(m, prop)

NextClean ==
    \/ \E data \in CleanPayloads : nextMsg <= MaxRichMsgs /\ MessageCreate(1, data)
    \/ \E m \in MsgIds, prop \in Props : ReadProp(m, prop)

NextAuthor ==
    \/ \E data \in KnownAuthorPayloads :
          nextMsg <= MaxRichMsgs /\ MessageCreate(1, [data EXCEPT !.content = <<<<>>>>])
    \/ \E m \in MsgIds, data \in KnownAuthorPayloads : MessageUpdate(m, data)

NextGuild ==
    \/ Receive("MESSAGE_CREATE", 1, [NoPayload EXCEPT !.content = <<<<>>>>])
    \/ Receive("GUILD_CREATE", 0, NoPayload)
    \/ Dispatch
    \/ \E ev \in inflight : GuildBegin(ev)
    \/ \E ev \in inflight, f \in SyncResults, fails \in BOOLEAN : SyncFetch(ev, f, fails)
    \/ \E ev \in inflight : SyncMembers(ev)
    \/ \E ev \in inflight : SyncRoles(ev)
    \/ \E ev \in inflight : SyncChannels(ev)
    \/ \E ev \in inflight : AddGuild(ev)
    \/ \E ev \in inflight : GuildDone(ev)
    \/ \E ev \in inflight : MsgConstruct(ev)
    \/ \E ev \in inflight : MsgCache(ev)
    \/ Reader

NextChan ==
    \/ last = NoLast /\ \E self \in MvChans, kw \in MoveKwargs : Move(self, kw)
    \/ last = NoLast /\ \E self \in MvChans, options \in EditOptions : Edit(self, options)
    \/ Return

NextRepos ==
    \/ \E t \in Tasks, self \in MvChans, kw \in ReposKwargs : MoveBegin(t, self, kw)
    \/ \E t \in Tasks, self \in MvChans, position \in ReposPositions :
          MoveToBegin(t, self, position)
    \/ \E t \in Tasks : \E i \in repos[t].open : RequestDone(t, i)
    \/ \E t \in Tasks : \E i \in repos[t].open : RequestFails(t, i)

NextFetch ==
    \/ last = NoLast /\ \E ch \in ChanIds, data \in PlainPayloads : MessageCreate(ch, data)
    \/ last = NoLast /\ \E id \in MsgIds : GetMessage(id)
    \/ last = NoLast /\ \E hs \in BOOLEAN, id \in MsgIds : CachedMessage(hs, id)
    \/ last = NoLast /\ \E id \in ChanIds, data \in ChannelData, fails \in BOOLEAN :
          FetchChannel(id, data, fails)
    \/ last = NoLast /\ \E data \in {BotMember, OtherMember}, fails \in BOOLEAN :
          FetchMember(data, fails)
    \/ last = NoLast /\ \E id \in AccessorIds : GetChannel(id)
    \/ last = NoLast /\ \E id \in AccessorIds : GetMember(id)
    \/ last = NoLast /\ \E id \in AccessorIds : GetRole(id)
    \/ last = NoLast /\ \E id \in {GuildId, OtherGuildId} : GetGuild(id)
    \/ Return

NextUpsert ==
    \/ \E data \in GuildPayloads, f \in SyncResults, fails \in BOOLEAN :
          UpsertGuild(data, f, fails)
    \/ \E id \in AccessorIds : GetChannel(id)
    \/ \E id \in AccessorIds : GetMember(id)
    \/ \E id \in AccessorIds : GetRole(id)

NextSync ==
    \/ \E data \in GuildPayloads, f \in MixedFetches, fails \in BOOLEAN :
          UpsertGuild(data, f, fails)
    \/ \E id \in ChanIds, data \in ChannelData, fails \in BOOLEAN :
          FetchChannel(id, data, fails)
    \/ \E data \in MixedChannels, fails \in BOOLEAN : FetchChannels(data, fails)

NextRemove ==
    \/ last = NoLast /\ \E ch \in ChanIds, data \in PlainPayloads : MessageCreate(ch, data)
    \/ last = NoLast /\ \E id \in {GuildId, OtherGuildId} : RemoveGuild(id)
    \/ last = NoLast /\ \E id \in MsgIds : GetMessage(id)
    \/ last = NoLast /\ \E id \in AccessorIds : GetChannel(id)
    \/ last = NoLast /\ \E id \in AccessorIds : GetMember(id)
    \/ last = NoLast /\ \E id \in AccessorIds : GetRole(id)
    \/ last = NoLast /\ \E id \in {GuildId, OtherGuildId} : GetGuild(id)
    \/ Return

NextCreate ==
    \/ last = NoLast /\ \E method \in CreateMethods, self \in ChanIds, data \in CreatedData,
                           fails \in BOOLEAN : CreateChannel(method, self, data, fails)
    \/ last = NoLast /\ \E id \in AccessorIds : GetChannel(id)
    \/ Return

NextRoleMap ==
    \/ last = NoLast /\ \E id \in RoleIds, args \in RoleEditArgs, data \in RoleData,
                           fails \in BOOLEAN : EditCachedRole(id, args, data, fails)
    \/ last = NoLast /\ \E data \in RoleData, fails \in BOOLEAN : CreateRole(data, fails)
    \/ last = NoLast /\ \E id \in AccessorIds : GetRole(id)
    \/ Return

NextEq ==
    \/ last = NoLast /\ \E a \in Emojis, b \in EmojiOthers : EmojiCompare(a, b)
    \/ last = NoLast /\ \E a \in EqUsers, b \in EqOthers :
          \E data \in EqPayloads(a.id) : UserCompare(a, data, b)
    \/ Return

NextRole ==
    \/ \E op \in {"lt", "le", "gt", "ge"}, a \in CmpRoles, b \in CmpRoles :
          RoleCompare(op, a, b)
    \/ \E role \in CmpRoles, args \in RoleEditArgs : RoleEdit(role, args)

Next ==
    NextUser \/ NextCache \/ NextMsg \/ NextProps \/ NextGuild \/ NextChan \/ NextFetch
    \/ NextUpsert \/ NextEq \/ NextClean \/ NextRole \/ NextRepos \/ NextAuthor
    \/ NextSync \/ NextRemove \/ NextCreate \/ NextRoleMap

Spec == Init /\ [][Next]_vars
SpecUser == Init /\ [][NextUser]_vars
SpecCache == InitSynced /\ [][NextCache]_vars
SpecMsg == InitSynced /\ [][NextMsg]_vars
SpecProps == InitSynced /\ [][NextProps]_vars
SpecClean == InitSynced /\ [][NextClean]_vars
SpecAuthor == InitSynced /\ [][NextAuthor]_vars

SpecGuild == Init /\ [][NextGuild]_vars
SpecRole == Init /\ [][NextRole]_vars
SpecChan == InitChan /\ [][NextChan]_vars
SpecRepos == Init /\ [][NextRepos]_vars

SpecFetch == InitSynced /\ [][NextFetch]_vars
SpecUpsert == InitUpsert /\ [][NextUpsert]_vars
SpecSync == InitUpsert /\ [][NextSync]_vars

SpecRemove == InitSynced /\ [][NextRemove]_vars

SpecCreate == InitSynced /\ [][NextCreate]_vars

SpecRoleMap == InitSynced /\ [][NextRoleMap]_vars

SpecEq == Init /\ [][NextEq]_vars

(* ------------------------------ claims --------------------------------- *)

\* C1: the user store never holds two User objects with the same id, and a
\* store_user for an id that is already stored returns the object that was
\* stored, with its fields set from the payload, so that every holder of a
\* stored user of that id holds that object and reads the new values.
C1_OneSharedUserPerId ==
    /\ \A o1, o2 \in store : obj[o1].id = obj[o2].id => o1 = o2
    /\ (last.op = "store_user" /\ last.prev # 0) =>
          /\ last.ret = last.prev
          /\ last.ret \in store
          /\ \A h \in Holders :
                (held[h] # 0 /\ obj[held[h]].stored /\ obj[held[h]].id = last.data.id) =>
                    /\ held[h] = last.ret
                    /\ obj[held[h]].name = last.data.username
                    /\ obj[held[h]].bot = (last.data.bot = "true")
                    /\ (last.data.avatar # Absent => obj[held[h]].avatar = last.data.avatar)

\* a second holder obtained an already stored user and the name changed
C1_Witness ==
    /\ last.op = "store_user"
    /\ last.prev # 0
    /\ last.changed
    /\ \E h \in Holders : h # last.h /\ held[h] = last.ret

\* C2: an entry leaves the user store only in a deref that takes its count
\* from one to zero; a deref of a count above one lowers it by one and keeps
\* the entry; no holder of a stored user ever finds it gone from the store;
\* and a store_user for an id that is not stored returns a new object.
C2_RemovedExactlyAtZero ==
    [][
        /\ \A o \in store :
              /\ (o \notin store') =>
                    (rc[o] = 1 /\ rc'[o] = 0 /\ last'.op = "__del__" /\ last'.deref
                     /\ last'.id = obj[o].id)
              /\ (last'.op = "__del__" /\ last'.deref /\ last'.id = obj[o].id) =>
                    /\ rc'[o] = rc[o] - 1
                    /\ (o \in store') <=> (rc[o] > 1)
        /\ \A h \in Holders :
              (held'[h] # 0 /\ obj'[held'[h]].stored) => held'[h] \in store'
        /\ \A o \in store' : rc'[o] = Cardinality({h \in Holders : held'[h] = o})
        /\ (last'.op = "store_user" /\ ExistingUser(last'.data.id) = 0) =>
              /\ last'.ret \notin store
              /\ last'.ret >= nextOid
              /\ \A h \in Holders : held[h] # last'.ret
    ]_vars

\* an id is stored again, as a new object, after its entry was removed
C2_Witness ==
    /\ last.op = "store_user"
    /\ last.prev = 0
    /\ \E o \in Oids : o < last.ret /\ obj[o].stored /\ obj[o].id = last.data.id
                        /\ o \notin store

\* C3: a deref_user for an id that is not in the user store raises nothing
\* and leaves the store, the objects and every reference count as they were.
C3_DerefAbsentIsNoOp ==
    [][
        (last'.op = "deref_user" /\ ExistingUser(last'.id) = 0) =>
            /\ ~last'.raised
            /\ UNCHANGED <<store, obj, rc, held, nextOid>>
    ]_vars

\* deref_user was called for an id whose entry had been removed before
C3_Witness ==
    /\ last.op = "deref_user"
    /\ \E o \in Oids : obj[o].stored /\ obj[o].id = last.id /\ o \notin store

(* C4: the recent-message cache evicts in insertion order. A message leaves
   the cache only when a message is cached into a full cache; the one that
   leaves is the earliest inserted of those cached (message ids grow with
   the time of insertion); a lookup of an id that is no longer cached
   returns None; and a lookup leaves the cache, hence the next eviction,
   as it was (FIFO, not LRU). *)
C4_FifoEviction ==
    [][ LET removed == Range(cache) \ Range(cache')
            lookup == last'.op \in {"_get_message", "cached_message"}
        IN /\ lookup => cache' = cache
           /\ (lookup /\ last'.op = "cached_message" => last'.hasState)
                 /\ lookup /\ last'.id \notin Range(cache')
                 => last'.ret = 0
           /\ removed # {} =>
                 /\ last'.op = "Message.__init__"
                 /\ Len(cache) = Capacity
                 /\ removed = {CHOOSE x \in Range(cache) : \A y \in Range(cache) : x <= y}
                 /\ \A x \in removed : _get_message(cache', x) = 0
           /\ (last'.op = "Message.__init__" /\ last'.raised = "none") =>
                 /\ last'.m \in Range(cache')
                 /\ Len(cache) < Capacity => removed = {}
                 /\ Len(cache) = Capacity => removed # {}
      ]_vars

\* a lookup through a message reference of a message that was evicted
C4_Witness ==
    /\ last.op = "cached_message"
    /\ last.hasState
    /\ last.id < nextMsg
    /\ last.id \notin Range(cache)
    /\ Len(cache) = Capacity

(* C5: in every reachable state the recent-message cache holds at most
   Capacity messages. *)
C5_CacheBounded == Len(cache) <= Capacity /\ Cardinality(Range(cache)) = Len(cache)

\* more messages than the capacity were cached, the last one into a full cache
C5_Witness ==
    /\ last.op = "Message.__init__"
    /\ last.m > Capacity + 1
    /\ Len(cache) = Capacity

(* C6: events are applied one at a time and in the order received. At most
   one event is being applied; every event already applied was received
   before the one being applied, which was received before every event still
   waiting; and the cache mutations, in the order they happened, never go
   back to an earlier event. *)
C6_OneAtATimeInOrder ==
    /\ Cardinality(inflight) <= 1
    /\ \A e \in inflight : \A d \in done : d < e.seq
    /\ \A e \in inflight : \A i \in 1..Len(inbox) : e.seq < inbox[i].seq
    /\ \A d \in done : \A i \in 1..Len(inbox) : d < inbox[i].seq
    /\ \A i, j \in 1..Len(log) : i <= j => log[i] <= log[j]

\* two events have mutated the cache and a third one is waiting
C6_Witness ==
    /\ \E i, j \in 1..Len(log) : log[i] < log[j]
    /\ inbox # <<>>

(* C7: no caller observes a guild whose sync has not completed. A guild that
   the guild lookup finds has been built, and its channel, role and member
   maps hold what the sync fetched; and no reader of the cache runs between
   the start and the end of the sync. *)
C7_NoUnsyncedGuildObserved ==
    /\ guilds # {} =>
          /\ gphase = "built"
          /\ gchannels = sync_channels([c \in ChanIds |-> NoChannel], fetched)
          /\ groles = sync_roles([r \in RoleIds |-> NoRole], fetched)
          /\ \A i \in 1..Len(fetched.members) :
                gmembers[fetched.members[i].user.id].kind = "member"
          /\ fetched.members = <<>> => gmembers[BotId].kind = "member"
    /\ last.op = "_get_guild" =>
          /\ last.phase \in {"none", "failed", "built"}
          /\ last.found => last.phase = "built"

\* a reader finds a guild whose sync fetched channels, roles and members
C7_Witness ==
    /\ last.op = "_get_guild"
    /\ last.found
    /\ fetched.members # <<>> /\ fetched.channels # <<>> /\ Has(fetched, "roles")

(* C8: a payload with both author and member, at construction or in _update,
   is applied without an error, the author handler runs before the member
   handler, and the author of the message is then a Member of the user the
   payload names. *)
C8_AuthorThenMember ==
    (/\ last.op \in {"Message.__init__", "_update"}
     /\ Has(last.data, "author") /\ Has(last.data, "member")
     /\ last.op = "Message.__init__" => Has(last.data, "content"))
    => /\ last.raised = "none"
       /\ \E i, j \in 1..Len(last.trace) :
             i < j /\ last.trace[i] = "author" /\ last.trace[j] = "member"
       /\ msg[last.m].akind = "member"
       /\ mem[msg[last.m].aref].uid = Val(last.data, "author").id
       /\ mem[msg[last.m].aref].nick = Val(last.data, "member").nick

\* an _update with both keys of a message whose author was a plain User
C8_Witness ==
    /\ last.op = "_update"
    /\ last.before = "user"
    /\ Has(last.data, "author") /\ Has(last.data, "member")
    /\ msg[last.m].akind = "member"

(* C9: after an update payload has been applied to a message, none of the
   cached properties raw_mentions, raw_channel_mentions, raw_role_mentions,
   channel_mentions and clean_content holds a value; a read of one of the
   three raw properties succeeds; and a read that succeeds returns what the
   property computes from the current fields. *)
C9_NoStaleCachedProperty ==
    /\ (last.op = "_update" /\ last.raised = "none") =>
          \A prop \in Props : ~msg[last.m].cs[SlotOf(prop)].set
    /\ (last.op = "read" /\ last.prop \in {"raw_mentions", "raw_channel_mentions",
                                              "raw_role_mentions"}) =>
          last.raised = "none"
    /\ (last.op = "read" /\ last.raised = "none") =>
          last.val = Fresh(last.m, last.prop)

(* C10: in a guild, the default role e (the role whose id is the guild id) is
   below every other role r whatever the ids: e < r is true, r < e is false,
   and e < e is false. *)
C10_DefaultRoleLowest ==
    (last.op = "lt" /\ last.a.guild = last.b.guild) =>
        /\ (last.a.id = last.a.guild /\ last.b.id # last.b.guild) => last.ret = "True"
        /\ (last.a.id # last.a.guild /\ last.b.id = last.b.guild) => last.ret = "False"
        /\ (last.a.id = last.a.guild /\ last.b.id = last.b.guild) => last.ret = "False"

(* C11: within one guild the comparator is a strict total order. For the two
   roles a, b just compared and every role c of their guild: a < a is
   false; a < b and b < a are not both true; one of them is true when the
   ids differ; a < b and b < c give a < c; and <=, > and >= are what < says
   they are. *)
C11_StrictTotalOrder ==
    (last.op \in {"lt", "le", "gt", "ge"} /\ last.a.guild = last.b.guild) =>
        LET a == last.a
            b == last.b
        IN /\ Role__lt__(a, a) = "False"
           /\ ~(Role__lt__(a, b) = "True" /\ Role__lt__(b, a) = "True")
           /\ a.id # b.id => (Role__lt__(a, b) = "True" \/ Role__lt__(b, a) = "True")
           /\ \A c \in CmpRoles :
                 (c.guild = a.guild /\ Role__lt__(a, b) = "True" /\ Role__lt__(b, c) = "True")
                 => Role__lt__(a, c) = "True"
           /\ last.op = "lt" => last.ret = Role__lt__(a, b)
           /\ last.op = "le" => (last.ret = "True") = (Role__lt__(b, a) # "True")
           /\ last.op = "gt" => (last.ret = "True") = (Role__lt__(b, a) = "True")
           /\ last.op = "ge" => (last.ret = "True") = (Role__lt__(a, b) # "True")

(* C12: a comparison with <, <=, > or >= of two roles of different guilds
   ends in the cross-guild error and gives no truth value. *)
C12_CrossGuildRaises ==
    (last.op \in {"lt", "le", "gt", "ge"} /\ last.a.guild # last.b.guild) =>
        last.ret = "RuntimeError"

\* a >= comparison of two roles of different guilds has been made
C12_Witness ==
    /\ last.op = "ge"
    /\ last.a.guild # last.b.guild
    /\ last.a.id = last.b.id

\* the channels move chooses among, apart from the subject: those of the
\* subject's bucket in the category given, or in the subject's own category
Siblings(self, kw) ==
    {c \in MvChans \ {self} :
        /\ chan[c].bucket = chan[self].bucket
        /\ chan[c].category_id =
              (IF kw.category \in {<<>>, <<NoCategory>>}
               THEN chan[self].category_id ELSE kw.category[1])}

\* c is ahead of d in the order of (position, id)
Ahead(c, d) ==
    \/ chan[c].position < chan[d].position
    \/ chan[c].position = chan[d].position /\ c < d

\* the number of placement arguments of a call that count as given
Placements(kw) ==
    (IF kw.beginning = <<TRUE>> THEN 1 ELSE 0) + (IF kw.end = <<TRUE>> THEN 1 ELSE 0)
    + (IF kw.before # <<>> THEN 1 ELSE 0) + (IF kw.after # <<>> THEN 1 ELSE 0)

(* C13: a relative move that succeeds sends one bulk update that lists the
   subject and its siblings once each, numbered 0, 1, 2, ... in the order
   listed; the siblings are in the order of (position, id); and the subject
   is at index max(0, r + offset), the end of the list when that is past
   the end, where r is 0 for beginning, the number of siblings for end, the
   number of siblings ahead of the named one for before, and one more for
   after. With positions 0..3 for c0..c3, c3 moved before c1 gives
   c0, c3, c1, c2. *)
C13_RelativeMove ==
    (last.op = "move" /\ last.raised = "none" /\ last.kw # NoKwargs) =>
        LET kw == last.kw
            sib == Siblings(last.self, kw)
            n == Cardinality(sib)
            pl == last.calls[1].payload
            o == IF kw.offset = <<>> THEN 0 ELSE kw.offset[1]
            r == CASE kw.beginning = <<TRUE>> -> 0
                   [] kw.end = <<TRUE>> -> n
                   [] kw.before # <<>> ->
                        Cardinality({c \in sib : Ahead(c, kw.before[1])})
                   [] kw.after # <<>> ->
                        Cardinality({c \in sib : Ahead(c, kw.after[1])}) + 1
            k == IF r + o < 0 THEN 0 ELSE IF r + o > n THEN n ELSE r + o
        IN /\ Len(last.calls) = 1
           /\ last.calls[1].api = "bulk_channel_update"
           /\ Len(pl) = n + 1
           /\ {pl[i].id : i \in 1..Len(pl)} = sib \cup {last.self}
           /\ \A i \in 1..Len(pl) : pl[i].position = i - 1
           /\ pl[k + 1].id = last.self
           /\ \A i, j \in 1..Len(pl) :
                 (i < j /\ pl[i].id # last.self /\ pl[j].id # last.self)
                 => Ahead(pl[i].id, pl[j].id)
           /\ (/\ \A c \in MvChans : chan[c] = [position |-> c, category_id |-> NoCategory,
                                                bucket |-> "text"]
               /\ last.self = 3
               /\ kw = [NoKwargs EXCEPT !.before = <<1>>, !.offset = <<0>>])
              => [i \in 1..4 |-> pl[i].id] = <<0, 3, 1, 2>>

\* c3 of the channels at positions 0..3 was moved before c1 with offset 0
C13_Witness ==
    /\ last.op = "move"
    /\ last.raised = "none"
    /\ last.self = 3
    /\ last.kw = [NoKwargs EXCEPT !.before = <<1>>, !.offset = <<0>>]
    /\ \A c \in MvChans : chan[c].position = c /\ chan[c].category_id = NoCategory
                          /\ chan[c].bucket = "text"

(* C14: a move that gives more than one of beginning, end, before, after, or
   names a before or after channel that is not among the siblings, raises
   InvalidArgument, sends no REST call and changes no channel. *)
C14_BadPlacementRaises ==
    [][ (/\ last'.op = "move"
         /\ \/ Placements(last'.kw) > 1
            \/ last'.kw.before # <<>>
               /\ last'.kw.before[1] \notin Siblings(last'.self, last'.kw)
            \/ last'.kw.after # <<>>
               /\ last'.kw.after[1] \notin Siblings(last'.self, last'.kw))
        => /\ last'.raised = "InvalidArgument"
           /\ last'.calls = <<>>
           /\ chan' = chan
           /\ gchannels' = gchannels ]_vars

\* a move before a channel that is not in the subject's category has raised
C14_Witness ==
    /\ last.op = "move"
    /\ Placements(last.kw) = 1
    /\ last.kw.before # <<>>
    /\ last.kw.before[1] \in MvChans \ {last.self}
    /\ last.kw.before[1] \notin Siblings(last.self, last.kw)
    /\ last.raised = "InvalidArgument"

(* C16 as claimed: a move that passes none of beginning, end, before, after
   raises nothing and sends no REST call, whether or not offset or category
   were passed. *)
C16_NoPlacementIsNoOp ==
    (/\ last.op = "move"
     /\ last.kw.beginning = <<>> /\ last.kw.end = <<>>
     /\ last.kw.before = <<>> /\ last.kw.after = <<>>)
    => last.raised = "none" /\ last.calls = <<>>

(* C16 as amended: a move called with no argument at all raises nothing and
   sends no REST call; a move that passes offset or category but none of
   beginning, end, before, after raises InvalidArgument and sends no REST
   call; neither changes a channel. *)
C16_NoArgumentIsNoOp ==
    [][ (/\ last'.op = "move"
         /\ last'.kw.beginning = <<>> /\ last'.kw.end = <<>>
         /\ last'.kw.before = <<>> /\ last'.kw.after = <<>>)
        => /\ last'.raised = (IF last'.kw = NoKwargs THEN "none" ELSE "InvalidArgument")
           /\ last'.calls = <<>>
           /\ chan' = chan
           /\ gchannels' = gchannels ]_vars

\* a move that passed an offset and a category and no placement has raised
C16_Witness ==
    /\ last.op = "move"
    /\ last.kw.beginning = <<>> /\ last.kw.end = <<>>
    /\ last.kw.before = <<>> /\ last.kw.after = <<>>
    /\ last.kw.offset # <<>> /\ last.kw.category # <<>>
    /\ last.raised = "InvalidArgument"

(* C15: an edit whose options hold a negative position or a type that is not
   a ChannelType raises InvalidArgument and has sent no REST call, neither
   bulk_channel_update nor edit_channel, whatever the other options are. *)
C15_BadEditRaisesBeforeRest ==
    (/\ last.op = "edit"
     /\ \/ last.options.position # <<>> /\ last.options.position[1] < 0
        \/ last.options.type = <<"str">>)
    => last.raised = "InvalidArgument" /\ last.calls = <<>>

(* C17: after fetch_channel or fetch_member has returned an entity, the
   guild's get_channel or get_member for the id returns that entity. *)
C17_FetchUpserts ==
    /\ (last.op = "fetch_channel" /\ last.raised = "none")
       => get_channel(gchannels, last.id) = last.ret
    /\ (last.op = "fetch_member" /\ last.raised = "none")
       => get_member(World, last.id) = [kind |-> "member", ref |-> last.ret]

(* C18: a fetch_channel whose data has an unknown type tag, or the id of a
   guild other than the one it was called on, raises InvalidData and leaves
   the guild's channel map as it was. *)
C18_BadFetchNotCached ==
    [][ (/\ last'.op = "fetch_channel"
         /\ last'.raised # "HTTPException"
         /\ \/ last'.data.type \notin {"text"}
            \/ last'.data.guild_id # GuildId)
        => /\ last'.raised = "InvalidData"
           /\ gchannels' = gchannels ]_vars

\* a text channel of another guild was fetched, and the fetch raised
C18_Witness ==
    /\ last.op = "fetch_channel"
    /\ last.data = [type |-> "text", guild_id |-> OtherGuildId]
    /\ last.raised = "InvalidData"

(* C19: get_channel, get_member, get_role, getGuild, _get_message and
   cached_message send no REST call, change none of the maps of channels,
   members, roles, guilds, users and messages, and return None for an id
   under which nothing is cached. *)
C19_GettersAreLookups ==
    [][ last'.op \in {"get_channel", "get_member", "get_role", "getGuild",
                      "_get_message", "cached_message"}
        => /\ last'.calls = <<>>
           /\ UNCHANGED <<gchannels, gmembers, groles, guilds, cache, store, obj, mem, msg>>
           /\ (last'.op = "get_channel"
               /\ (last'.id \notin ChanIds \/ ~gchannels[last'.id].exists))
              => last'.ret = NoChannel
           /\ (last'.op = "get_member"
               /\ (last'.id \notin UserIds \/ gmembers[last'.id].kind = "none"))
              => last'.ret = NoEntry
           /\ (last'.op = "get_role"
               /\ (last'.id \notin RoleIds \/ ~groles[last'.id].exists))
              => last'.ret = NoRole
           /\ (last'.op = "getGuild" /\ last'.id \notin guilds) => last'.ret = 0
           /\ (last'.op \in {"_get_message", "cached_message"}
               /\ last'.id \notin Range(cache))
              => last'.ret = 0 ]_vars

\* a channel id of the guild under which no channel is cached was looked up
C19_Witness ==
    /\ last.op = "get_channel"
    /\ last.id \in ChanIds
    /\ ~gchannels[last.id].exists
    /\ last.ret = NoChannel
    /\ cache # <<>>

(* C20: after a full-guild payload was applied for the guild that was cached,
   the guild's channels are the channels of a known type the sync delivered,
   its roles are the roles of the payload and of the sync, and its members
   are the Member objects this sync built from the members delivered (the
   bot's own member when none was); nothing else is in the three maps. *)
C20_ReplaceNotMerge ==
    (last.op = "upsertGuild" /\ last.raised = "none") =>
        LET f == last.f
            delivered == IF f.members # <<>> THEN {f.members[i].user.id : i \in 1..Len(f.members)}
                         ELSE {BotId}
        IN /\ \A c \in ChanIds :
                 gchannels[c].exists
                 <=> \E i \in 1..Len(f.channels) :
                        f.channels[i].id = c /\ f.channels[i].type = "text"
           /\ \A r \in RoleIds :
                 groles[r].exists
                 <=> \/ last.data.roles # <<>> /\ r \in Range(last.data.roles[1])
                     \/ f.roles # <<>> /\ r \in Range(f.roles[1])
           /\ \A u \in UserIds :
                 /\ gmembers[u].kind # "none" <=> u \in delivered
                 /\ gmembers[u].kind # "none"
                    => /\ gmembers[u].kind = "member"
                       /\ gmembers[u].ref >= last.mid0
                       /\ mem[gmembers[u].ref].uid = u

\* the guild had a channel, a role and a second member, and the payload applied
\* after that delivered none of them
C20_Witness ==
    /\ last.op = "upsertGuild" /\ last.raised = "none"
    /\ last.before.channels[1].exists /\ ~gchannels[1].exists
    /\ last.before.roles[1].exists /\ ~groles[1].exists
    /\ last.before.members[2].kind = "member" /\ gmembers[2].kind = "none"

(* C21: the request of Role.edit holds name, color and hoist in its info
   object exactly when the caller passed them (colour or color for color),
   with the value passed, and the filter flag of each is 1 when it was passed
   and 0 when not; a value of 0, False or '' counts as passed. *)
C21_EditSendsWhatWasPassed ==
    last.op = "role_edit" =>
        LET a == last.args
            p == last.calls[1].payload
            passed == [name |-> a.name # <<>>,
                       color |-> a.colour # <<>> \/ a.color # <<>>,
                       hoist |-> a.hoist # <<>>]
        IN /\ Len(last.calls) = 1
           /\ \A k \in {"name", "color", "hoist"} :
                 /\ p.info[k] # <<>> <=> passed[k]
                 /\ p.filter[k] = (IF passed[k] THEN 1 ELSE 0)
           /\ a.name # <<>> => p.info.name = a.name
           /\ a.hoist # <<>> => p.info.hoist = a.hoist
           /\ a.color # <<>> => p.info.color[1].v = a.color[1].v
           /\ (a.color = <<>> /\ a.colour # <<>>) => p.info.color[1].v = a.colour[1].v

\* an edit was asked for with '' for name, 0 for colour, False for hoist
C21_Witness ==
    /\ last.op = "role_edit"
    /\ last.args = [name |-> <<PyVal("str", "")>>, colour |-> <<PyVal("int", "0")>>,
                    color |-> <<>>, hoist |-> <<PyVal("bool", "False")>>]
    /\ last.calls[1].payload.filter = [color |-> 1, name |-> 1, hoist |-> 1]

(* C22: a custom and a unicode PartialEmoji are never equal, whichever of
   the two is on the left; two custom emoji are equal exactly when their ids
   are equal, and two unicode emoji exactly when their names are equal. *)
C22_EmojiEquality ==
    (last.op = "emoji_eq" /\ last.b.tag = "PartialEmoji") =>
        LET a == last.a
            b == last.b
        IN /\ a.custom # b.custom => ~last.ret
           /\ (a.custom /\ b.custom) => (last.ret <=> a.id = b.id)
           /\ (~a.custom /\ ~b.custom) => (last.ret <=> a.name = b.name)

(* C23: two users are equal exactly when their ids are equal, equal users
   have equal hashes, and an update that changes name, avatar or bot flag
   leaves the id, the equality with any other object and the hash as they
   were. *)
C23_UserEqualityById ==
    last.op = "user_eq" =>
        /\ last.b.tag = "user" => (last.eq <=> last.a.id = last.b.o.id)
        /\ (last.b.tag = "user" /\ last.eq) => last.hash = last.hashb
        /\ last.a2.id = last.a.id
        /\ last.eq2 = last.eq
        /\ last.hash2 = last.hash

\* a user was compared with another of the same id and another name, and then
\* updated with a payload that changed its name, avatar and bot flag
C23_Witness ==
    /\ last.op = "user_eq"
    /\ last.b.tag = "user" /\ last.b.o.id = last.a.id /\ last.b.o.name # last.a.name
    /\ last.a.id = 2^HashShift + 1
    /\ last.a2.name # last.a.name /\ last.a2.avatar # last.a.avatar
    /\ last.a2.bot # last.a.bot
    /\ last.eq /\ last.eq2

(* C24: for a message whose content holds a mention token of a cached
   channel and a mention token of a member of the guild that the payload
   lists among its mentions, a read of clean_content succeeds and returns the
   content with the channel token replaced by # and the channel's name and
   the user token by @ and the member's displayed name, each once, in place. *)
C24_CleanContentReplaces ==
    (/\ last.op = "read" /\ last.prop = "clean_content"
     /\ \E i \in 1..Len(msg[last.m].content) :
           LET t == msg[last.m].content[i]
           IN t.k = "chan" /\ LongId(t) /\ t.id \in ChanIds /\ gchannels[t.id].exists
     /\ \E i \in 1..Len(msg[last.m].content) :
           LET t == msg[last.m].content[i]
           IN /\ t.k = "user" /\ t.id \in UserIds /\ gmembers[t.id].kind = "member"
              /\ msg[last.m].mentions_set
              /\ \E j \in 1..Len(msg[last.m].mentions) :
                    msg[last.m].mentions[j] = gmembers[t.id])
    => /\ last.raised = "none"
       /\ Len(last.val) = Len(msg[last.m].content)
       /\ \A i \in 1..Len(last.val) :
             LET t == msg[last.m].content[i]
             IN /\ (t.k = "chan" /\ LongId(t) /\ t.id \in ChanIds /\ gchannels[t.id].exists)
                   => last.val[i].sub = <<"#", gchannels[t.id].name>>
                /\ (t.k = "user" /\ t.id \in UserIds /\ gmembers[t.id].kind = "member")
                   => last.val[i].sub = <<"@", display_name(World, gmembers[t.id])>>

\* the last call was a reposition that sent a bulk update: a relative move,
\* or an edit with a position
Repositioned ==
    /\ last.op \in {"move", "edit"}
    /\ last.calls # <<>>
    /\ last.calls[1].api = "bulk_channel_update"

\* the category argument of the last reposition: <<>> when none was given
GivenCategory == IF last.op = "move" THEN last.kw.category ELSE last.options.category

\* the channels the last reposition chose among, apart from the subject
Renumbered ==
    IF last.op = "move" THEN Siblings(last.self, last.kw)
    ELSE {c \in MvChans \ {last.self} : chan[c].bucket = chan[last.self].bucket}

(* C27: the bulk payload of a reposition, relative move or position edit,
   lists the subject and every channel it chose among once each, and the
   positions it gives are 0, 1, ..., n-1 in the order listed, for every
   placement and every offset, those before index 0 or past the end too. *)
C27_PayloadIsRenumbering ==
    Repositioned =>
        LET pl == last.calls[1].payload
        IN /\ Len(pl) = Cardinality(Renumbered) + 1
           /\ {pl[i].id : i \in 1..Len(pl)} = Renumbered \cup {last.self}
           /\ \A i, j \in 1..Len(pl) : pl[i].id = pl[j].id => i = j
           /\ \A i \in 1..Len(pl) : pl[i].position = i - 1
           /\ {pl[i].position : i \in 1..Len(pl)} = 0..(Len(pl) - 1)

\* a move to the end with an offset past the end, and one to the beginning
\* with an offset before it, have sent their payloads
C27_Witness ==
    /\ Repositioned /\ last.op = "move"
    /\ \/ last.kw.end = <<TRUE>> /\ last.kw.offset = <<MaxOffset>>
       \/ last.kw.beginning = <<TRUE>> /\ last.kw.offset = <<-1>>
    /\ Len(last.calls[1].payload) > 2

(* C28: in the bulk payload of a reposition the subject's entry holds a
   parent_id exactly when the caller gave a category, None included, and the
   entry of no other channel holds one. *)
C28_ParentOnSubjectOnly ==
    Repositioned =>
        LET pl == last.calls[1].payload
        IN \A i \in 1..Len(pl) :
              IF pl[i].id = last.self
              THEN pl[i].parent_id = GivenCategory
              ELSE pl[i].parent_id = <<>>

\* an edit with a position and the category None has sent its payload
C28_Witness ==
    /\ Repositioned /\ last.op = "edit"
    /\ last.options.category = <<NoCategory>>
    /\ Len(last.calls[1].payload) > 1

(* C29: the channels a reposition renumbers are, apart from the subject, the
   channels of the subject's sorting bucket whose category is the category
   the caller gave, no category when None was given, or the subject's own
   category when none was given. *)
C29_CandidatesOfTargetCategory ==
    Repositioned =>
        LET pl == last.calls[1].payload
            target == IF GivenCategory = <<>> THEN chan[last.self].category_id
                      ELSE GivenCategory[1]
        IN {pl[i].id : i \in 1..Len(pl)} \ {last.self}
           = {c \in MvChans \ {last.self} :
                 /\ chan[c].bucket = chan[last.self].bucket
                 /\ chan[c].category_id = target}


(* C25: when the bulk update of a reposition has failed, the local channels
   hold the positions of the payload, the new 0..n-1 numbering, and not the
   positions they had before the move. *)
C25_FailedMoveKeepsEndState ==
    \A t \in Tasks :
        repos[t].pc = "raised" =>
            \A i \in 1..Len(repos[t].payload) :
                chan[repos[t].payload[i].id].position = repos[t].payload[i].position

(* C26: after two repositions of channels of one sorting bucket have run
   interleaved, each suspended at its bulk update, and both have returned,
   no two channels of the bucket have the same position on the server. *)
C26_ServerPositionsDistinct ==
    (\A t \in Tasks : repos[t].pc = "returned" /\ repos[t].open = {}) =>
        \A c, d \in MvChans :
            c # d /\ chan[c].bucket = chan[d].bucket => server[c] # server[d]


(* C30: an update with member data of a message whose author is a Member
   leaves the author reference on the same Member object, whose nickname is
   then the payload's, whether the payload has an author or not. *)
C30_MemberUpdatedInPlace ==
    [][(/\ last'.op = "_update"
        /\ last'.raised = "none"
        /\ Has(last'.data, "member")
        /\ msg[last'.m].akind = "member")
       => /\ msg'[last'.m].akind = "member"
          /\ msg'[last'.m].aref = msg[last'.m].aref
          /\ mem'[msg[last'.m].aref].nick = Val(last'.data, "member").nick]_vars


(* C31: when the author id of a message payload is the id of a member cached
   in the guild, the author of the constructed message is that cached Member;
   it is a plain User only when the guild knows no member of that id. *)
C31_AuthorResolvesToMember ==
    [][(/\ last'.op = "Message.__init__"
        /\ last'.raised = "none"
        /\ Has(last'.data, "author")
        /\ ~Has(last'.data, "member"))
       => LET known == get_member(World, Val(last'.data, "author").id)
          IN IF known.kind = "member"
             THEN msg'[last'.m].akind = "member" /\ msg'[last'.m].aref = known.ref
             ELSE msg'[last'.m].akind = "user"]_vars


(* C32: a payload with a member and no author, applied to a message whose
   author was never set, at construction or in _update, ends without an error
   or in one of the library's own errors, never in a crash; after an _update
   no cached property holds a value. *)
C32_MemberWithoutAuthor ==
    (/\ last.op \in {"Message.__init__", "_update"}
     /\ Has(last.data, "member") /\ ~Has(last.data, "author")
     /\ last.before = "unset")
    => /\ last.raised \in {"none", "InvalidArgument", "InvalidData"}
       /\ last.op = "_update" =>
             \A n \in _CACHED_SLOTS : ~msg[last.m].cs[n].set


(* C33: a guild sync skips a channel whose type tag is unknown without
   raising and adds every channel of the fetched list whose tag is known,
   wherever the unknown one stands in the list; fetch_channel and
   fetch_channels raise InvalidData for data with an unknown tag. *)
C33_UnknownTagSkippedOrRaised ==
    /\ (last.op = "upsertGuild" /\ last.raised = "none") =>
          \A c \in ChanIds :
              gchannels[c].exists
              <=> \E i \in 1..Len(last.f.channels) :
                     last.f.channels[i].id = c /\ last.f.channels[i].type = "text"
    /\ (last.op = "fetch_channel" /\ last.raised # "HTTPException"
        /\ last.data.type = "unknown") =>
          last.raised = "InvalidData"
    /\ (last.op = "fetch_channels" /\ last.raised # "HTTPException") =>
          IF \E i \in 1..Len(last.data) : last.data[i].type = "unknown"
          THEN last.raised = "InvalidData"
          ELSE last.raised = "none" /\ Len(last.ret) = Len(last.data)

\* a sync whose list had the unknown channel before a text channel has added
\* the text channel
C33_Witness ==
    /\ last.op = "upsertGuild" /\ last.raised = "none"
    /\ last.f.channels[1].type = "unknown" /\ Len(last.f.channels) > 1
    /\ gchannels[1].exists /\ ~gchannels[2].exists


(* C34: once a guild has been constructed and synced, its member map holds
   the bot's own member, so Guild.me is not None, whether the fetched member
   list was empty or not. *)
C34_MeIsCached ==
    (gphase = "built" \/ guilds # {}) =>
        LET me == get_member(World, BotId)
        IN /\ me.kind = "member"
           /\ mem[me.ref].exists
           /\ mem[me.ref].uid = BotId

\* a guild synced from an empty member list is in the guild map
C34_Witness ==
    /\ guilds # {} /\ gphase = "built"
    /\ fetched.members = <<>>
    /\ get_member(World, BotId).kind = "member"


(* C35: after removeGuild(id) the lookups find neither the guild nor any of
   its channels, members and roles, and the message cache is as before: each
   message cached before the removal is still found by its id and still has
   the channel it was constructed with. *)
C35_RemoveGuildKeepsMessages ==
    [][(last'.op = "removeGuild" /\ last'.found)
       => /\ _get_guild(guilds', last'.id) = 0
          /\ \A id \in AccessorIds :
                /\ get_channel(gchannels', id) = NoChannel
                /\ get_role(groles', id) = NoRole
                /\ get_member([gmembers |-> gmembers'], id) = NoEntry
          /\ cache' = cache
          /\ \A m \in Range(cache) :
                /\ _get_message(cache', m) = m
                /\ msg'[m] = msg[m]
                /\ Message_channel(msg', gchannels', m) = Message_channel(msg, gchannels, m)
                /\ Message_channel(msg', gchannels', m) \in ChanIds]_vars

\* the guild was removed while a message of one of its channels was cached
C35_Witness ==
    /\ last.op = "removeGuild" /\ last.found
    /\ guilds = {}
    /\ \E m \in Range(cache) : msg[m].exists /\ msg[m].channel = 1


(* C36: in every reachable state each entry of the guild's member map is a
   Member whose id is its key, and each entry of the channel map is the
   channel of its key; no message event leaves a plain User in the member
   map, in a free place or in the place of a cached Member. *)
C36_MemberMapHoldsMembers ==
    /\ \A u \in UserIds :
          LET e == get_member(World, u)
          IN e.kind # "none" =>
                /\ e.kind = "member"
                /\ mem[e.ref].exists
                /\ mem[e.ref].uid = u
    /\ \A c \in ChanIds :
          get_channel(gchannels, c).exists => get_channel(gchannels, c).name = ChannelName(c)


(* C37: after a create_ method of the guild or a clone has succeeded, the
   channel map holds the returned channel under its id, in the place of what
   was there, and the other entries are as before; when the REST call fails
   the channel map is unchanged. *)
C37_CreatedChannelCached ==
    [][last'.op = "create_channel"
       => IF last'.raised = "none"
          THEN /\ get_channel(gchannels', last'.data.id) = last'.ret
               /\ last'.ret.exists
               /\ \A c \in ChanIds \ {last'.data.id} : gchannels'[c] = gchannels[c]
          ELSE gchannels' = gchannels]_vars

\* a clone has returned a channel under the id of a channel that was cached
C37_Witness ==
    /\ last.op = "create_channel" /\ last.method = "clone" /\ last.raised = "none"
    /\ last.data.id = 1
    /\ gchannels[1] = CreatedChannel(last.data)


(* C38: Role.edit and Guild.create_role change nothing in the local cache:
   the role map holds the same roles with the same fields after the call, the
   Role that edit was called on among them, and the Role returned is built
   from the data of the server and entered nowhere. *)
C38_RoleCallsLeaveCache ==
    [][last'.op \in {"Role.edit", "create_role"}
       => /\ groles' = groles
          /\ <<gchannels', gmembers', guilds', store', obj', mem', msg', cache'>>
             = <<gchannels, gmembers, guilds, store, obj, mem, msg, cache>>
          /\ last'.op = "Role.edit" => get_role(groles', last'.id) = get_role(groles, last'.id)
          /\ last'.raised = "none" =>
                /\ last'.ret = Role_init(last'.data)
                /\ \A r \in RoleIds : get_role(groles', r) # last'.ret]_vars

\* an edit of the cached role 1 has returned a Role of the same id and a new
\* name, and a create_role has returned a Role of an id that is not cached
C38_Witness ==
    \/ /\ last.op = "Role.edit" /\ last.raised = "none"
       /\ last.id = 1 /\ last.data.id = 1
       /\ groles[1].exists /\ groles[1] # last.ret
    \/ /\ last.op = "create_role" /\ last.raised = "none"
       /\ last.data.id = 2 /\ ~groles[2].exists


(* C39: the finalizer of a User calls deref_user for its id exactly when the
   object is marked stored; a copy made by _copy is never marked, so its
   finalizer changes no reference count and no store entry; and no reference
   count is ever below zero. *)
C39_OnlyStoredUsersDeref ==
    [][/\ last'.op = "__del__" =>
             /\ last'.deref <=> obj[last'.o].stored
             /\ ~obj[last'.o].stored => rc' = rc /\ store' = store
       /\ last'.op = "_copy" =>
             /\ ~obj'[last'.ret].stored
             /\ rc' = rc /\ store' = store
       /\ \A o \in Oids : rc'[o] >= 0]_vars

\* a copy was finalized while the user it was copied from is still stored
C39_Witness ==
    /\ last.op = "__del__" /\ ~last.deref
    /\ \E o \in store : obj[o].id = last.id /\ rc[o] >= 1


(* C40: for any two emoji a and b, custom or unicode, a == b gives equal
   hashes, and a == b is true exactly when b == a is. *)
C40_EmojiHashAndSymmetry ==
    (last.op = "emoji_eq" /\ last.b.tag = "PartialEmoji") =>
        /\ last.ret => last.hash = last.hashb
        /\ last.ret <=> last.rev

====
